---- MODULE Spec2Model ----
(***************************************************************************)
(* A model of mmm (MonterraByte/mmm): the merge engine that combines the   *)
(* directories of the enabled mods into one file tree, the staging        *)
(* materialiser and mount orchestration of the deployer, the              *)
(* (de)serialisation of the instance data, the deployer's choice of the    *)
(* profile, the operations of the editable instance, move_multiple, and    *)
(* save() with the writer thread that replaces the instance data file.     *)
(*                                                                         *)
(* Conventions.  A ModIndex is the 0-based integer of the code; the mod    *)
(* list is a TLA+ sequence, so the declaration of ModIndex i is mods[i+1]. *)
(* A path is a sequence of component names, relative to a mod directory    *)
(* (or to the staging directory).  A NodeId is the position of the node    *)
(* in the arena of the tree; 0 stands for "no node" (None).                *)
(***************************************************************************)
EXTENDS Integers, Sequences, FiniteSets, TLC

VARIABLES
    \* ---- the opened instance and the mod directories on disk (inputs)
    instance,       \* [mods, mod_order]: DeployInstance, what the Instance trait exposes
    disk,           \* directory name under <instance>/mods  ->  [exists, entries]
    \* ---- build_path_tree (core/src/file_tree.rs)
    pc,             \* position in build_path_tree, or its outcome
    tree,           \* the arena of TreeNodes under construction
    order_pos,      \* entries of mod_order the reversed iterator has not yielded yet
    cur_mod,        \* mod_index of the mod being walked by iter_dir
    dirs_to_visit,  \* iter_dir's stack of (dir, node)
    cur_dir,        \* the (dir, node) popped last, whose read_dir is being iterated
    pending,        \* directory entries read_dir has not yielded yet
    result,         \* the TreeBuildError returned, if any
    \* ---- the deployer (deploy/src/main.rs, staging.rs, mount.rs, caps.rs, namespace.rs)
    args,           \* [mount_method, exec]: the command line
    dpc,            \* position in main
    caps,           \* [effective, permitted]: the thread's capability sets
    elevated,       \* number of ElevatedCaps guards alive
    mounted,        \* [tmpfs, overlay]: what the kernel has mounted
    handles,        \* [staging_dir, overlay_mount]: the Option inside each UnmountWrapper
    staging,        \* the entries created in the staging tmpfs
    stage_pos,      \* nodes of the pre-order traversal already taken by build_staging_tree
    log,            \* the mount and unmount operations issued so far, in order
    exit,           \* how main ended: "running", "Ok", "Err", "exit1", "panic"
    \* ---- the instance data file (core/src/instance/mod.rs, data.rs)
    data,           \* the InstanceData value that is serialized
    encoded,        \* the CBOR data item in the file mmm.cbor
    loaded,         \* what InstanceData::from_file returned
    opened,         \* what DeployInstance::open returned, with its profile_name argument
    cpc,            \* "data", "file", "tampered", "loaded" or "opened"
    \* ---- the editable instance (edit/src/instance.rs); its data is the variable data
    current_profile, \* state.current_profile: the key of the active profile
    changed,        \* the changed flag
    mods_dir,       \* the names of the directories in <instance>/mods
    ret,            \* the last call made and what it returned
    epc,            \* "idle", "open", "panicked" or "dropped"
    \* ---- move_multiple looked at alone (edit/src/util.rs)
    move_args,      \* [slice, from, to]: the arguments of the call
    move_ret,       \* [slice, panicked]: the slice after the call, and whether it panicked
    mpc,            \* "idle", "call" or "returned"
    \* ---- the writer thread and the files it writes (edit/src/writer.rs)
    write_queue,    \* the WriteRequests in the channel, oldest first
    sender,         \* "none", "alive" or "dropped": the Sender held by the EditableInstance
    wpc,            \* the worker's position: "none", "recv", "create", "write", "sync", "rename", "terminated"
    req,            \* the WriteRequest the worker is processing
    tmp_file,       \* mmm.cbor.tmp: [exists, content, complete, synced]
    data_file,      \* mmm.cbor: [content, complete]
    sent,           \* history: the content of every request enqueued so far, in order
    taken,          \* history: the number of requests the worker has received
    failed          \* history: the requests (by number) that hit a failing step

treeVars == <<instance, disk, pc, tree, order_pos, cur_mod, dirs_to_visit, cur_dir, pending, result>>

deployVars == <<args, dpc, caps, elevated, mounted, handles, staging, stage_pos, log, exit>>

codecVars == <<data, encoded, loaded, opened, cpc>>

editVars == <<current_profile, changed, mods_dir, ret, epc>>

moveVars == <<move_args, move_ret, mpc>>

writerVars == <<write_queue, sender, wpc, req, tmp_file, data_file, sent, taken, failed>>

vars == <<treeVars, deployVars, codecVars, editVars, moveVars, writerVars>>

----------------------------------------------------------------------------
(* Bounds of the model *)

\* The longest active mod order that is drawn.
MaxOrder == 2

\* The names of the declared mods (all distinct, as the editor keeps them).
ModNames == <<"A", "B", "C">>

\* The directory entries a mod directory may hold: x (file or directory),
\* x/y (file or directory) and the file y.
DiskEntryUniverse ==
    { [path |-> <<"x">>, is_dir |-> FALSE], [path |-> <<"x">>, is_dir |-> TRUE],
      [path |-> <<"x", "y">>, is_dir |-> FALSE], [path |-> <<"x", "y">>, is_dir |-> TRUE],
      [path |-> <<"y">>, is_dir |-> FALSE] }

----------------------------------------------------------------------------
(* Sequences *)

Last(s) == s[Len(s)]

Front(s) == SubSeq(s, 1, Len(s) - 1)

Reverse(s) == [i \in 1..Len(s) |-> s[Len(s) + 1 - i]]

Range(s) == { s[i] : i \in 1..Len(s) }

Min(S) == CHOOSE a \in S : \A b \in S : a <= b

IsPrefix(p, q) == Len(p) <= Len(q) /\ SubSeq(q, 1, Len(p)) = p

----------------------------------------------------------------------------
(* The instance: mod declarations, the active profile's order, the disk *)

NumMods == Len(ModNames)

ModIndexSet == 0..(NumMods - 1)

ModEntryKind == {"Mod", "Separator"}

\* ModOrderEntry { index, enabled }
ModOrderEntry == [index : ModIndexSet, enabled : BOOLEAN]

\* An order as InstanceData::from_file lets it through: no ModIndex twice.
NoDuplicateIndex(order) ==
    \A i, j \in 1..Len(order) : order[i].index = order[j].index => i = j

Orders ==
    UNION { { o \in [1..n -> ModOrderEntry] : NoDuplicateIndex(o) } : n \in 0..MaxOrder }

\* A mod directory's content: paths are unique and every entry lies in a directory.
WellFormedDir(S) ==
    /\ \A e, f \in S : e.path = f.path => e = f
    /\ \A e \in S : Len(e.path) > 1 => [path |-> Front(e.path), is_dir |-> TRUE] \in S

DirTrees == { S \in SUBSET DiskEntryUniverse : WellFormedDir(S) }

AbsentDir == [exists |-> FALSE, entries |-> {}]

ModDeclarations ==
    { [i \in 1..NumMods |-> [name |-> ModNames[i], kind |-> k[i]]] :
        k \in [1..NumMods -> ModEntryKind] }

\* Mod::init creates the directory of a Mod only: a Separator has none.
DisksOver(mods, trees) ==
    { [n \in Range(ModNames) |->
          IF \E i \in 1..NumMods : mods[i].name = n /\ mods[i].kind = "Mod"
          THEN [exists |-> TRUE, entries |-> f[n]]
          ELSE AbsentDir] : f \in [Range(ModNames) -> trees] }

Disks(mods) == DisksOver(mods, DirTrees)

\* Instance::mod_dir: <dir>/mods/<name>; the model keeps the <name>.
mod_dir(mod_decl) == mod_decl.name

\* fs::symlink_metadata(mod_dir/path): "none" (an error), "dir" or "file".
\* The component "." of a path names the directory itself.
SymlinkMetadata(d, dir_name, path) ==
    LET p == SelectSeq(path, LAMBDA c : c # ".")
    IN  IF ~d[dir_name].exists THEN "none"
        ELSE IF p = <<>> THEN "dir"
        ELSE IF [path |-> p, is_dir |-> TRUE] \in d[dir_name].entries THEN "dir"
        ELSE IF [path |-> p, is_dir |-> FALSE] \in d[dir_name].entries THEN "file"
        ELSE "none"

\* fs::read_dir(mod_dir/dir): the entries directly inside the directory.
ReadDir(d, dir_name, dir) ==
    { e \in d[dir_name].entries : Len(e.path) = Len(dir) + 1 /\ IsPrefix(dir, e.path) }

----------------------------------------------------------------------------
(* The file tree (nary_tree arena) *)

RootId == 1

RootNode == [name |-> ".", is_dir |-> TRUE, providing_mods |-> <<>>, parent |-> 0]

NodeIds(t) == 1..Len(t)

\* NodeRef::ancestors: the parent, its parent, ... up to the root; not the node.
RECURSIVE Ancestors(_, _)
Ancestors(t, n) ==
    IF t[n].parent = 0 THEN <<>>
    ELSE <<t[n].parent>> \o Ancestors(t, t[n].parent)

\* find_child_with_name: the first child of parent with that name, or None.
find_child_with_name(t, parent, name) ==
    LET m == { c \in NodeIds(t) : t[c].parent = parent /\ t[c].name = name }
    IN  IF m = {} THEN 0 ELSE Min(m)

create_dir_node(t, parent, name) ==
    Append(t, [name |-> name, is_dir |-> TRUE, providing_mods |-> <<>>, parent |-> parent])

\* create_file_node with the provider list left empty.
create_file_node_no_provider(t, parent, mod_index, name) ==
    Append(t, [name |-> name, is_dir |-> FALSE, providing_mods |-> <<>>, parent |-> parent])

create_file_node(t, parent, mod_index, name) ==
    Append(t, [name |-> name, is_dir |-> FALSE, providing_mods |-> <<mod_index>>,
               parent |-> parent])

\* add_to_existing_node inserting the provider at the front instead of pushing it.
add_to_existing_node_front(t, node, mod_index, expect_dir) ==
    IF t[node].is_dir /\ expect_dir THEN [ok |-> TRUE, tree |-> t]
    ELSE IF ~t[node].is_dir /\ ~expect_dir
    THEN [ok |-> TRUE,
          tree |-> [t EXCEPT ![node].providing_mods = <<mod_index>> \o @]]
    ELSE [ok |-> FALSE, tree |-> t]

\* add_to_existing_node: Ok(()) with the provider pushed, or Err(TypeMismatch(node)).
add_to_existing_node(t, node, mod_index, expect_dir) ==
    IF t[node].is_dir /\ expect_dir THEN [ok |-> TRUE, tree |-> t]
    ELSE IF ~t[node].is_dir /\ ~expect_dir
    THEN [ok |-> TRUE,
          tree |-> [t EXCEPT ![node].providing_mods = Append(@, mod_index)]]
    ELSE [ok |-> FALSE, tree |-> t]

NoResult == [kind |-> "None"]

\* The scan of with_context over instance.mods(): the names pushed so far, or
\* "Io" as soon as symlink_metadata fails for one of the other mods.
RECURSIVE ConflictScan(_, _, _, _, _, _)
ConflictScan(mods, d, mod_decl, node_path, expected_dir, i) ==
    IF i > Len(mods) THEN [io |-> FALSE, names |-> <<>>]
    ELSE LET other_mod == mods[i]
             rest == ConflictScan(mods, d, mod_decl, node_path, expected_dir, i + 1)
             m == SymlinkMetadata(d, mod_dir(other_mod), node_path)
         IN  IF other_mod = mod_decl THEN rest
             ELSE IF m = "none" THEN [io |-> TRUE, names |-> <<>>]
             ELSE IF rest.io THEN rest
             ELSE IF (m = "dir") # expected_dir
                  THEN [io |-> FALSE, names |-> <<other_mod.name>> \o rest.names]
                  ELSE rest

\* UnresolvedTreeBuildError::TypeMismatch(node_id).with_context(tree, mod_decl, instance)
with_context(t, node_id, mod_decl, inst, d) ==
    LET conflict_node == t[node_id]
        expected_dir == ~conflict_node.is_dir
        ancestors == Ancestors(t, node_id)
        node_path == [i \in 1..Len(ancestors) |-> t[Reverse(ancestors)[i]].name]
        scan == ConflictScan(inst.mods, d, mod_decl, node_path, expected_dir, 1)
    IN  IF scan.io THEN [kind |-> "Io"]
        ELSE [kind |-> "TypeMismatch",
              node |-> node_id,
              name |-> conflict_node.name,
              probed |-> node_path,
              mod_name |-> mod_decl.name,
              mod_uses_as |-> IF conflict_node.is_dir THEN "file" ELSE "directory",
              conflicting_mod_names |-> scan.names,
              others_use_as |-> IF conflict_node.is_dir THEN "directory" ELSE "file"]

----------------------------------------------------------------------------
(* build_path_tree as a state machine *)

\* The state after the root has been built (file_tree.rs:74-80).
TreeStart ==
    /\ tree = <<RootNode>>
    /\ order_pos = Len(instance.mod_order)
    /\ cur_mod = 0
    /\ dirs_to_visit = <<>>
    /\ cur_dir = [dir |-> <<>>, node |-> RootId]
    /\ pending = {}
    /\ result = NoResult

Instances ==
    { [mods |-> m, mod_order |-> o] : m \in ModDeclarations, o \in Orders }

\* An InstanceData without mods and profiles.
NoData == [mods |-> <<>>, profiles |-> <<>>]

\* The result of InstanceData::from_file: Ok(data) or Err(error).
LoadResult(error, d) == [ok |-> error = "None", error |-> error, data |-> d, version |-> 0]

NoProfile == [key |-> "", display_name |-> "", mod_order |-> <<>>]

\* Option<&str>: None, or Some(name).
None == [some |-> FALSE, name |-> ""]

Some(name) == [some |-> TRUE, name |-> name]

\* The result of DeployInstance::open(dir, profile_name): Ok(Self { dir, mods, profile })
\* or Err(error). The profile is kept with the key it was stored at.
OpenResult(profile_name, error, mods, profile) ==
    [profile_name |-> profile_name, ok |-> error = "None", error |-> error,
     mods |-> mods, profile |-> profile]

NotOpened == OpenResult(None, "NotOpened", <<>>, NoProfile)

\* The instance data file's variables while no file is written or read.
CodecIdle ==
    /\ data = NoData
    /\ encoded = [t |-> "none", v |-> 0]
    /\ loaded = LoadResult("NotLoaded", NoData)
    /\ opened = NotOpened
    /\ cpc = "idle"

\* A call of the editable instance: the operation and the error returned ("None"
\* for Ok and for ()); add_profile's has the key it returns as well.
Return(op, error) == [op |-> op, error |-> error]

\* The editable instance's variables while no instance is open for editing.
EditIdle ==
    /\ current_profile = ""
    /\ changed = FALSE
    /\ mods_dir = {}
    /\ ret = Return("none", "None")
    /\ epc = "idle"

\* The arguments and the result of move_multiple while it is not looked at alone.
MoveIdle ==
    /\ move_args = [slice |-> <<>>, from |-> {}, to |-> 0]
    /\ move_ret = [slice |-> <<>>, panicked |-> FALSE]
    /\ mpc = "idle"

\* The content of a file that was never written.
NoContent == [t |-> "none", v |-> 0]

\* The writer thread's variables while no writer thread is spawned.
WriterIdle ==
    /\ write_queue = <<>>
    /\ sender = "none"
    /\ wpc = "none"
    /\ req = NoContent
    /\ tmp_file = [exists |-> FALSE, content |-> NoContent, complete |-> FALSE, synced |-> FALSE]
    /\ data_file = [content |-> NoContent, complete |-> TRUE]
    /\ sent = <<>>
    /\ taken = 0
    /\ failed = {}

\* The deployer's variables while build_path_tree is looked at alone.
DeployIdle ==
    /\ args = [mount_method |-> "Direct", exec |-> FALSE]
    /\ dpc = "build"
    /\ caps = [effective |-> {}, permitted |-> {"SYS_ADMIN"}]
    /\ elevated = 0
    /\ mounted = [tmpfs |-> FALSE, overlay |-> FALSE]
    /\ handles = [staging_dir |-> "none", overlay_mount |-> "none"]
    /\ staging = {}
    /\ stage_pos = 0
    /\ log = <<>>
    /\ exit = "running"

InitTree ==
    /\ instance \in Instances
    /\ disk \in Disks(instance.mods)
    /\ pc = "loop"
    /\ TreeStart
    /\ EditIdle
    /\ MoveIdle
    /\ WriterIdle
    /\ DeployIdle
    /\ CodecIdle

\* for entry in instance.mod_order().iter().rev(): the iterator is exhausted, Ok(tree).
BuildFinish ==
    /\ pc = "loop"
    /\ order_pos = 0
    /\ pc' = "Ok"
    /\ UNCHANGED <<instance, disk, tree, order_pos, cur_mod, dirs_to_visit, cur_dir, pending, result>>
    /\ UNCHANGED <<deployVars, codecVars, editVars, moveVars, writerVars>>

\* The test of the enabled flag left out: no entry is skipped as disabled.
NotEnabled_never(entry) == FALSE

\* The test of `if !entry.enabled { continue; }`.
NotEnabled(entry) == ~entry.enabled

\* if !entry.enabled { continue; }
SkipDisabled ==
    /\ pc = "loop"
    /\ order_pos > 0
    /\ NotEnabled(instance.mod_order[order_pos])
    /\ order_pos' = order_pos - 1
    /\ UNCHANGED <<instance, disk, pc, tree, cur_mod, dirs_to_visit, cur_dir, pending, result>>
    /\ UNCHANGED <<deployVars, codecVars, editVars, moveVars, writerVars>>

\* Whether build_path_tree walks the directory of this declaration.
WalksKind(kind) == kind = "Mod"

\* if mod_decl.kind() != ModEntryKind::Mod { continue; }
SkipSeparator ==
    /\ pc = "loop"
    /\ order_pos > 0
    /\ ~NotEnabled(instance.mod_order[order_pos])
    /\ ~WalksKind(instance.mods[instance.mod_order[order_pos].index + 1].kind)
    /\ order_pos' = order_pos - 1
    /\ UNCHANGED <<instance, disk, pc, tree, cur_mod, dirs_to_visit, cur_dir, pending, result>>
    /\ UNCHANGED <<deployVars, codecVars, editVars, moveVars, writerVars>>

\* iter_dir(&mut tree, mod_index, mod_dir, root): dirs_to_visit = vec![(dir, node)]
StartModWalk ==
    /\ pc = "loop"
    /\ order_pos > 0
    /\ ~NotEnabled(instance.mod_order[order_pos])
    /\ WalksKind(instance.mods[instance.mod_order[order_pos].index + 1].kind)
    /\ order_pos' = order_pos - 1
    /\ cur_mod' = instance.mod_order[order_pos].index
    /\ dirs_to_visit' = <<[dir |-> <<>>, node |-> RootId]>>
    /\ pending' = {}
    /\ pc' = "walk"
    /\ UNCHANGED <<instance, disk, tree, cur_dir, result>>
    /\ UNCHANGED <<deployVars, codecVars, editVars, moveVars, writerVars>>

\* while let Some((dir, node)) = dirs_to_visit.pop() { for entry in fs::read_dir(&dir)? ...
PopDir ==
    /\ pc = "walk"
    /\ pending = {}
    /\ dirs_to_visit # <<>>
    /\ cur_dir' = Last(dirs_to_visit)
    /\ dirs_to_visit' = Front(dirs_to_visit)
    /\ pending' = ReadDir(disk, mod_dir(instance.mods[cur_mod + 1]), Last(dirs_to_visit).dir)
    /\ UNCHANGED <<instance, disk, pc, tree, order_pos, cur_mod, result>>
    /\ UNCHANGED <<deployVars, codecVars, editVars, moveVars, writerVars>>

\* The body of the for loop of iter_dir for one directory entry, which read_dir
\* yields in no particular order.
VisitEntry ==
    /\ pc = "walk"
    /\ \E entry \in pending :
        LET entry_name == Last(entry.path)
            child_node == find_child_with_name(tree, cur_dir.node, entry_name)
            added == add_to_existing_node(tree, child_node, cur_mod, entry.is_dir)
            new_tree == IF child_node # 0 THEN added.tree
                        ELSE IF entry.is_dir
                             THEN create_dir_node(tree, cur_dir.node, entry_name)
                             ELSE create_file_node(tree, cur_dir.node, cur_mod, entry_name)
            entry_node == IF child_node # 0 THEN child_node ELSE Len(tree) + 1
        IN  IF child_node # 0 /\ ~added.ok
            THEN \* Err(TypeMismatch(node_id)) leaves iter_dir and is given its context
                 /\ result' = with_context(tree, child_node, instance.mods[cur_mod + 1],
                                           instance, disk)
                 /\ pc' = result'.kind
                 /\ UNCHANGED <<tree, dirs_to_visit, pending>>
            ELSE /\ tree' = new_tree
                 /\ dirs_to_visit' =
                        IF entry.is_dir
                        THEN Append(dirs_to_visit, [dir |-> entry.path, node |-> entry_node])
                        ELSE dirs_to_visit
                 /\ pending' = pending \ {entry}
                 /\ UNCHANGED <<pc, result>>
    /\ UNCHANGED <<instance, disk, order_pos, cur_mod, cur_dir>>
    /\ UNCHANGED <<deployVars, codecVars, editVars, moveVars, writerVars>>

\* dirs_to_visit.pop() is None: iter_dir returns Ok(()).
ModWalkDone ==
    /\ pc = "walk"
    /\ pending = {}
    /\ dirs_to_visit = <<>>
    /\ pc' = "loop"
    /\ UNCHANGED <<instance, disk, tree, order_pos, cur_mod, dirs_to_visit, cur_dir, pending, result>>
    /\ UNCHANGED <<deployVars, codecVars, editVars, moveVars, writerVars>>

NextTree ==
    \/ BuildFinish
    \/ SkipDisabled
    \/ SkipSeparator
    \/ StartModWalk
    \/ PopDir
    \/ VisitEntry
    \/ ModWalkDone

SpecTree == InitTree /\ [][NextTree]_vars

----------------------------------------------------------------------------
(* What the claims about the merge tree speak of *)

\* The relative path of a node: the names from below the root down to the node.
RECURSIVE PathOf(_, _)
PathOf(t, n) ==
    IF t[n].parent = 0 THEN <<>> ELSE Append(PathOf(t, t[n].parent), t[n].name)

FileNodes(t) == { n \in NodeIds(t) : ~t[n].is_dir }

DeclOf(entry) == instance.mods[entry.index + 1]

\* An enabled, non-Separator entry of the active order.
Eligible(entry) == entry.enabled /\ DeclOf(entry).kind = "Mod"

EntriesOnDisk(entry) == disk[DeclOf(entry).name].entries

\* The providers of the file at p, from the last eligible entry of the order to the first.
ExpectedProviders(p) ==
    LET sel == SelectSeq(Reverse(instance.mod_order),
                         LAMBDA e : Eligible(e)
                                    /\ [path |-> p, is_dir |-> FALSE] \in EntriesOnDisk(e))
    IN  [i \in 1..Len(sel) |-> sel[i].index]

\* The relative paths that exist in the directory of some eligible entry.
ProvidedPaths ==
    UNION { { e.path : e \in EntriesOnDisk(instance.mod_order[i]) } :
            i \in { j \in 1..Len(instance.mod_order) : Eligible(instance.mod_order[j]) } }

\* Two eligible entries provide the same path, one as a directory, one as a file.
KindConflict ==
    \E i, j \in 1..Len(instance.mod_order) :
        /\ Eligible(instance.mod_order[i])
        /\ Eligible(instance.mod_order[j])
        /\ \E e \in EntriesOnDisk(instance.mod_order[i]) :
              [path |-> e.path, is_dir |-> ~e.is_dir] \in EntriesOnDisk(instance.mod_order[j])

BuildReturned == pc \in {"Ok", "Io", "TypeMismatch"}

\* C1: in the tree build_path_tree returns, the providing_mods of the File node at p
\* are the enabled non-Separator entries of the order that have a non-directory at p,
\* from the entry that is last in the order to the one that is first.
C1_ProvidersByPriority ==
    pc = "Ok" =>
        \A n \in FileNodes(tree) : tree[n].providing_mods = ExpectedProviders(PathOf(tree, n))

C1_Witness ==
    /\ pc = "Ok"
    /\ \E n \in FileNodes(tree) :
          /\ Len(tree[n].providing_mods) >= 2
          /\ Len(PathOf(tree, n)) = 2

\* C2: the non-root nodes of the returned tree are, one node per path, the relative
\* paths that exist in the directory of an enabled non-Separator entry; with no such
\* entry the tree is the Dir root "." alone.
C2_NodesAreProvidedPaths ==
    pc = "Ok" =>
        /\ tree[RootId] = RootNode
        /\ { PathOf(tree, n) : n \in NodeIds(tree) \ {RootId} } = ProvidedPaths
        /\ \A n, m \in NodeIds(tree) : PathOf(tree, n) = PathOf(tree, m) => n = m
        /\ (\A i \in 1..Len(instance.mod_order) : ~Eligible(instance.mod_order[i]))
              => tree = <<RootNode>>

\* A tree of several nodes built while a disabled entry's directory holds a path that
\* no enabled mod provides.
C2_Witness ==
    /\ pc = "Ok"
    /\ Len(tree) >= 3
    /\ \E i \in 1..Len(instance.mod_order) :
          /\ ~instance.mod_order[i].enabled
          /\ \E e \in EntriesOnDisk(instance.mod_order[i]) : e.path \notin ProvidedPaths

\* C3: at every step of build_path_tree and in its result, every File node has at
\* least one provider and no ModIndex twice (the order holding no ModIndex twice).
C3_ProvidersNonEmptyDistinct ==
    NoDuplicateIndex(instance.mod_order) =>
        \A n \in FileNodes(tree) :
            LET pm == tree[n].providing_mods
            IN  /\ Len(pm) >= 1
                /\ \A i, j \in 1..Len(pm) : pm[i] = pm[j] => i = j

C3_Witness ==
    /\ pc = "walk"
    /\ pending # {}
    /\ \E n \in FileNodes(tree) : Len(tree[n].providing_mods) >= 2

\* C4: when two enabled non-Separator entries provide one path with different kinds,
\* build_path_tree returns TypeMismatch (neither Ok nor Io), whatever else is declared.
C4_ConflictIsTypeMismatch ==
    (KindConflict /\ BuildReturned) => pc = "TypeMismatch"

\* C5: a surfaced type mismatch probed, in each other mod, the full relative path of
\* the offending node, and names as conflicting exactly the other declared
\* non-Separator mods whose entry at that path has the kind opposite to the walked
\* mod's entry - at least one, in both directions of the conflict.
C5_MismatchNamesConflictingMods ==
    pc = "TypeMismatch" =>
        LET p == PathOf(tree, result.node)
            walked == instance.mods[cur_mod + 1]
            opposite == IF tree[result.node].is_dir THEN "dir" ELSE "file"
            expected == { m.name : m \in { d \in Range(instance.mods) :
                                            /\ d.kind = "Mod"
                                            /\ d # walked
                                            /\ SymlinkMetadata(disk, mod_dir(d), p) = opposite } }
        IN  /\ SelectSeq(result.probed, LAMBDA c : c # ".") = p
            /\ result.mod_name = walked.name
            /\ Range(result.conflicting_mod_names) = expected
            /\ result.conflicting_mod_names # <<>>

----------------------------------------------------------------------------
(* Capabilities (caps.rs) *)

CAPS_DISABLED == [effective |-> {}, permitted |-> {"SYS_ADMIN"}]

CAPS_ENABLED == [effective |-> {"SYS_ADMIN"}, permitted |-> {"SYS_ADMIN"}]

CAPS_NONE == [effective |-> {}, permitted |-> {}]

\* What unshare(CLONE_NEWUSER) leaves the thread with: every capability of the new
\* user namespace, permitted and effective.
CAPS_NAMESPACE == [effective |-> {"SYS_ADMIN", "OTHER"}, permitted |-> {"SYS_ADMIN", "OTHER"}]

\* have_cap_sys_admin: the permitted set contains CAP_SYS_ADMIN.
have_cap_sys_admin(c) == "SYS_ADMIN" \in c.permitted

\* lower: set_capabilities(CAPS_DISABLED) with the capability, CAPS_NONE without it.
lower(c) == IF have_cap_sys_admin(c) THEN CAPS_DISABLED ELSE CAPS_NONE

\* capset refuses a permitted set that is not within the current one, and
\* ElevatedCaps::raise expects it to succeed.
RaiseSucceeds(c) == CAPS_ENABLED.permitted \subseteq c.permitted

----------------------------------------------------------------------------
(* The staging tree (staging.rs) *)

Children(t, n) == { c \in NodeIds(t) : t[c].parent = n }

\* traverse_pre_order: a node, then the subtrees of its children, first child first.
RECURSIVE traverse_pre_order(_, _)
RECURSIVE TraverseChildren(_, _)
traverse_pre_order(t, n) == <<n>> \o TraverseChildren(t, Children(t, n))

TraverseChildren(t, cs) ==
    IF cs = {} THEN <<>>
    ELSE traverse_pre_order(t, Min(cs)) \o TraverseChildren(t, cs \ {Min(cs)})

\* The nodes build_staging_tree goes through: traverse_pre_order().skip(1).
NodesToStage(t) == Tail(traverse_pre_order(t, RootId))

\* ancestors.iter().rev().skip(1).chain(iter::once(&node)).map(name)
relative_path(t, n) ==
    LET from_root == Reverse(Ancestors(t, n))
        below_root == IF from_root = <<>> THEN <<>> ELSE Tail(from_root)
    IN  [i \in 1..Len(below_root) |-> t[below_root[i]].name] \o <<t[n].name>>

\* providing_mods.first() read as the last element.
first_provider_last(providing_mods) == providing_mods[Len(providing_mods)]

\* providing_mods.first()
first_provider(providing_mods) == providing_mods[1]

\* mods.path(mod_index).join(&relative_path)
source_path(inst, mod_index, rel) == [mod |-> mod_dir(inst.mods[mod_index + 1]), path |-> rel]

NoTarget == [mod |-> "", path |-> <<>>]

\* fs::create_dir and symlink need the parent to be a directory and the path to be free.
CanCreate(st, path) ==
    /\ \A e \in st : e.path # path
    /\ Len(path) > 1 => \E e \in st : e.path = Front(path) /\ e.kind = "dir"

\* The entry build_staging_tree creates for one node.
StagedEntry(inst, t, n) ==
    IF t[n].is_dir
    THEN [path |-> relative_path(t, n), kind |-> "dir", target |-> NoTarget]
    ELSE [path |-> relative_path(t, n), kind |-> "symlink",
          target |-> source_path(inst, first_provider(t[n].providing_mods), relative_path(t, n))]

----------------------------------------------------------------------------
(* The deployer: main of deploy/src/main.rs as a state machine *)

\* The directory trees the deployed mods are drawn from: a single file, or the
\* directory x with a file in it and possibly a file next to it.
DeployDirTrees ==
    { S \in DirTrees :
        /\ S # {}
        /\ \A e \in S : e.is_dir => \E f \in S : ~f.is_dir /\ IsPrefix(e.path, f.path)
        /\ [path |-> <<"x">>, is_dir |-> TRUE] \in S \/ Cardinality(S) = 1 }

MountMethod == {"Direct", "UserNamespace"}

Args == [mount_method : MountMethod, exec : BOOLEAN]

InitDeploy ==
    /\ instance \in Instances
    /\ disk \in DisksOver(instance.mods, DeployDirTrees)
    /\ pc = "idle"
    /\ TreeStart
    /\ EditIdle
    /\ MoveIdle
    /\ WriterIdle
    /\ args \in Args
    /\ dpc = "start"
    /\ caps \in {CAPS_ENABLED, CAPS_DISABLED, CAPS_NONE}
    /\ elevated = 0
    /\ mounted = [tmpfs |-> FALSE, overlay |-> FALSE]
    /\ handles = [staging_dir |-> "none", overlay_mount |-> "none"]
    /\ staging = {}
    /\ stage_pos = 0
    /\ log = <<>>
    /\ exit = "running"
    /\ CodecIdle

\* Where main continues when a step returns Err through `?`: the locals are dropped
\* in reverse order of declaration, overlay_mount before staging_dir.
Unwind_staging_first == "drop_staging"

Unwind == "drop_overlay"

\* caps::init(); (clearing the ambient set does not touch the effective set)
CapsInit ==
    /\ dpc = "start"
    /\ caps' = lower(caps)
    /\ dpc' = "parse"
    /\ UNCHANGED <<args, elevated, mounted, handles, staging, stage_pos, log, exit>>
    /\ UNCHANGED <<treeVars, codecVars, editVars, moveVars, writerVars>>

\* Args::parse and the check that user namespaces come with --exec.
ParseArgs ==
    /\ dpc = "parse"
    /\ IF args.mount_method = "UserNamespace" /\ ~args.exec
       THEN dpc' = "returned" /\ exit' = "exit1"
       ELSE dpc' = "open" /\ UNCHANGED exit
    /\ UNCHANGED <<args, caps, elevated, mounted, handles, staging, stage_pos, log>>
    /\ UNCHANGED <<treeVars, codecVars, editVars, moveVars, writerVars>>

\* DeployInstance::open(..)?, then the call of build_path_tree.
OpenInstance ==
    /\ dpc = "open"
    /\ \E ok \in BOOLEAN :
        IF ok THEN dpc' = "build" /\ pc' = "loop"
              ELSE dpc' = Unwind /\ UNCHANGED pc
    /\ UNCHANGED <<instance, disk, tree, order_pos, cur_mod, dirs_to_visit, cur_dir, pending, result>>
    /\ UNCHANGED <<args, caps, elevated, mounted, handles, staging, stage_pos, log, exit>>
    /\ UNCHANGED <<codecVars, editVars, moveVars, writerVars>>

\* build_path_tree(&mods)? and print_tree(..)?, then the choice of the mount method.
BuildReturn ==
    /\ dpc = "build"
    /\ pc \in {"Ok", "Io", "TypeMismatch"}
    /\ \E printed \in BOOLEAN :
        dpc' = IF pc = "Ok" /\ printed
               THEN (IF args.mount_method = "UserNamespace" THEN "unshare" ELSE "staging_new")
               ELSE Unwind
    /\ UNCHANGED <<args, caps, elevated, mounted, handles, staging, stage_pos, log, exit>>
    /\ UNCHANGED <<treeVars, codecVars, editVars, moveVars, writerVars>>

\* enter_namespace: unshare(CLONE_NEWUSER | CLONE_NEWNS)?
Unshare ==
    /\ dpc = "unshare"
    /\ \E ok \in BOOLEAN :
        IF ok THEN caps' = CAPS_NAMESPACE /\ dpc' = "uid_gid_map"
              ELSE UNCHANGED caps /\ dpc' = Unwind
    /\ UNCHANGED <<args, elevated, mounted, handles, staging, stage_pos, log, exit>>
    /\ UNCHANGED <<treeVars, codecVars, editVars, moveVars, writerVars>>

\* enter_namespace: set_up_uid_and_gid_map(uid, gid)? and the assertions after it.
SetUpUidAndGidMap ==
    /\ dpc = "uid_gid_map"
    /\ \E ok \in BOOLEAN :
        IF ~ok THEN dpc' = Unwind /\ UNCHANGED exit
        ELSE IF have_cap_sys_admin(caps) THEN dpc' = "staging_new" /\ UNCHANGED exit
        ELSE dpc' = "returned" /\ exit' = "panic"
    /\ UNCHANGED <<args, caps, elevated, mounted, handles, staging, stage_pos, log>>
    /\ UNCHANGED <<treeVars, codecVars, editVars, moveVars, writerVars>>

\* TempMount::new: TempDir::with_prefix("mmm-")?, then in mount_tmpfs
\* open_dir_and_check_ownership(path)?
TempMountNew ==
    /\ dpc = "staging_new"
    /\ \E ok \in BOOLEAN : dpc' = IF ok THEN "mount_tmpfs" ELSE Unwind
    /\ UNCHANGED <<args, caps, elevated, mounted, handles, staging, stage_pos, log, exit>>
    /\ UNCHANGED <<treeVars, codecVars, editVars, moveVars, writerVars>>

\* The places where an ElevatedCaps guard is taken: the two mounts and unmount_inner,
\* called from unmount and from drop.
MountSites == {"mount_tmpfs", "mount_overlayfs"}

UnmountSites == {"unmount_overlay", "unmount_staging"}

DropSites == {"drop_overlay", "drop_staging"}

HandleAt(site) ==
    IF site \in {"drop_overlay", "unmount_overlay"} THEN handles.overlay_mount
    ELSE handles.staging_dir

\* Drop for UnmountWrapper that takes every handle for already unmounted.
NeedsUnmount_never(h) == FALSE

\* Drop for UnmountWrapper: if self.0.is_none() { return; }
NeedsUnmount(h) == h = "some"

\* let _caps = ElevatedCaps::raise();
ElevatedCapsRaise ==
    /\ dpc \in MountSites \cup UnmountSites \cup DropSites
    /\ dpc \in DropSites => NeedsUnmount(HandleAt(dpc))
    /\ elevated = 0
    /\ IF RaiseSucceeds(caps)
       THEN caps' = CAPS_ENABLED /\ elevated' = 1 /\ UNCHANGED <<dpc, exit>>
       ELSE dpc' = "returned" /\ exit' = "panic" /\ UNCHANGED <<caps, elevated>>
    /\ UNCHANGED <<args, mounted, handles, staging, stage_pos, log>>
    /\ UNCHANGED <<treeVars, codecVars, editVars, moveVars, writerVars>>

\* The guard going out of scope: Drop for ElevatedCaps calls lower().
ElevatedCapsDrop ==
    /\ caps' = lower(caps)
    /\ elevated' = 0

\* mount_tmpfs after the guard is taken: fsopen, fsconfig, fsmount, move_mount, each
\* with `?`; then Ok(Self(UnmountWrapper::new(temp_dir))) in TempMount::new.
MountTmpfs ==
    /\ dpc = "mount_tmpfs"
    /\ elevated = 1
    /\ \E ok \in BOOLEAN :
        /\ log' = Append(log, [op |-> "mount", target |-> "tmpfs", ok |-> ok])
        /\ mounted' = [mounted EXCEPT !.tmpfs = ok]
        /\ handles' = [handles EXCEPT !.staging_dir = IF ok THEN "some" ELSE "none"]
        /\ dpc' = IF ok THEN "stage" ELSE Unwind
    /\ ElevatedCapsDrop
    /\ UNCHANGED <<args, staging, stage_pos, exit>>
    /\ UNCHANGED <<treeVars, codecVars, editVars, moveVars, writerVars>>

\* The for loop of build_staging_tree has gone through every node.
StagingComplete(t, pos) == pos >= Len(NodesToStage(t))

\* One iteration of the for loop of build_staging_tree: create_dir or symlink, with `?`.
StageNode ==
    /\ dpc = "stage"
    /\ ~StagingComplete(tree, stage_pos)
    /\ \E io_ok \in BOOLEAN :
        LET entry == StagedEntry(instance, tree, NodesToStage(tree)[stage_pos + 1])
        IN  IF io_ok /\ CanCreate(staging, entry.path)
            THEN /\ staging' = staging \cup {entry}
                 /\ stage_pos' = stage_pos + 1
                 /\ UNCHANGED dpc
            ELSE /\ dpc' = Unwind
                 /\ UNCHANGED <<staging, stage_pos>>
    /\ UNCHANGED <<args, caps, elevated, mounted, handles, log, exit>>
    /\ UNCHANGED <<treeVars, codecVars, editVars, moveVars, writerVars>>

\* Ok(staging_dir) of build_staging_tree.
StageDone ==
    /\ dpc = "stage"
    /\ StagingComplete(tree, stage_pos)
    /\ dpc' = "canonicalize"
    /\ UNCHANGED <<args, caps, elevated, mounted, handles, staging, stage_pos, log, exit>>
    /\ UNCHANGED <<treeVars, codecVars, editVars, moveVars, writerVars>>

\* args.game_path.canonicalize()?
Canonicalize ==
    /\ dpc = "canonicalize"
    /\ \E ok \in BOOLEAN : dpc' = IF ok THEN "overlay_new" ELSE Unwind
    /\ UNCHANGED <<args, caps, elevated, mounted, handles, staging, stage_pos, log, exit>>
    /\ UNCHANGED <<treeVars, codecVars, editVars, moveVars, writerVars>>

\* OverlayMount::new: in mount_overlayfs, open_dir_and_check_ownership(game_path)?
OverlayMountNew ==
    /\ dpc = "overlay_new"
    /\ \E ok \in BOOLEAN : dpc' = IF ok THEN "mount_overlayfs" ELSE Unwind
    /\ UNCHANGED <<args, caps, elevated, mounted, handles, staging, stage_pos, log, exit>>
    /\ UNCHANGED <<treeVars, codecVars, editVars, moveVars, writerVars>>

\* mount_overlayfs after the guard is taken, then Ok(Self(UnmountWrapper::new(..))).
MountOverlayfs ==
    /\ dpc = "mount_overlayfs"
    /\ elevated = 1
    /\ \E ok \in BOOLEAN :
        /\ log' = Append(log, [op |-> "mount", target |-> "overlay", ok |-> ok])
        /\ mounted' = [mounted EXCEPT !.overlay = ok]
        /\ handles' = [handles EXCEPT !.overlay_mount = IF ok THEN "some" ELSE "none"]
        /\ dpc' = IF ok THEN "run" ELSE Unwind
    /\ ElevatedCapsDrop
    /\ UNCHANGED <<args, staging, stage_pos, exit>>
    /\ UNCHANGED <<treeVars, codecVars, editVars, moveVars, writerVars>>

\* run_game_and_wait(&exe)?: spawn and wait may fail.
RunGameAndWait ==
    /\ dpc = "run"
    /\ args.exec
    /\ \E ok \in BOOLEAN : dpc' = IF ok THEN "unmount_overlay" ELSE Unwind
    /\ UNCHANGED <<args, caps, elevated, mounted, handles, staging, stage_pos, log, exit>>
    /\ UNCHANGED <<treeVars, codecVars, editVars, moveVars, writerVars>>

\* wait_for_sigterm(): returns when SIGINT has arrived.
WaitForSigterm ==
    /\ dpc = "run"
    /\ ~args.exec
    /\ dpc' = "unmount_overlay"
    /\ UNCHANGED <<args, caps, elevated, mounted, handles, staging, stage_pos, log, exit>>
    /\ UNCHANGED <<treeVars, codecVars, editVars, moveVars, writerVars>>

\* unmount_inner after the guard is taken: unmount(path, DETACH | NOFOLLOW).
unmount_inner(target, ok) ==
    /\ log' = Append(log, [op |-> "unmount", target |-> target, ok |-> ok])
    /\ mounted' = [mounted EXCEPT ![target] = IF ok THEN FALSE ELSE @]
    /\ ElevatedCapsDrop

\* overlay_mount.unmount()?: on Err the wrapper is dropped with its path still in it.
UnmountOverlay ==
    /\ dpc = "unmount_overlay"
    /\ elevated = 1
    /\ \E ok \in BOOLEAN :
        /\ unmount_inner("overlay", ok)
        /\ handles' = [handles EXCEPT !.overlay_mount = IF ok THEN "taken" ELSE @]
        /\ dpc' = IF ok THEN "unmount_staging" ELSE "drop_overlay"
    /\ UNCHANGED <<args, staging, stage_pos, exit>>
    /\ UNCHANGED <<treeVars, codecVars, editVars, moveVars, writerVars>>

\* Drop for UnmountWrapper of overlay_mount: let _ = self.unmount_inner();
DropOverlay ==
    /\ dpc = "drop_overlay"
    /\ elevated = 1
    /\ \E ok \in BOOLEAN : unmount_inner("overlay", ok)
    /\ handles' = [handles EXCEPT !.overlay_mount = "dropped"]
    /\ dpc' = "drop_staging"
    /\ UNCHANGED <<args, staging, stage_pos, exit>>
    /\ UNCHANGED <<treeVars, codecVars, editVars, moveVars, writerVars>>

\* staging_dir.unmount()?: self.0.unmount() of TempMount::unmount.
UnmountStaging ==
    /\ dpc = "unmount_staging"
    /\ elevated = 1
    /\ \E ok \in BOOLEAN :
        /\ unmount_inner("tmpfs", ok)
        /\ handles' = [handles EXCEPT !.staging_dir = IF ok THEN "taken" ELSE @]
        /\ dpc' = IF ok THEN "tempdir_close" ELSE "drop_staging"
    /\ UNCHANGED <<args, staging, stage_pos, exit>>
    /\ UNCHANGED <<treeVars, codecVars, editVars, moveVars, writerVars>>

\* Drop for UnmountWrapper of staging_dir, the last local of main to go.
DropStaging ==
    /\ dpc = "drop_staging"
    /\ elevated = 1
    /\ \E ok \in BOOLEAN : unmount_inner("tmpfs", ok)
    /\ handles' = [handles EXCEPT !.staging_dir = "dropped"]
    /\ dpc' = "returned"
    /\ exit' = "Err"
    /\ UNCHANGED <<args, staging, stage_pos>>
    /\ UNCHANGED <<treeVars, codecVars, editVars, moveVars, writerVars>>

\* Drop of a local that holds no mount: nothing to unmount.
DropNone ==
    /\ dpc \in DropSites
    /\ ~NeedsUnmount(HandleAt(dpc))
    /\ elevated = 0
    /\ IF dpc = "drop_overlay"
       THEN dpc' = "drop_staging" /\ UNCHANGED exit
       ELSE dpc' = "returned" /\ exit' = "Err"
    /\ UNCHANGED <<args, caps, elevated, mounted, handles, staging, stage_pos, log>>
    /\ UNCHANGED <<treeVars, codecVars, editVars, moveVars, writerVars>>

\* temp_dir.close() of TempMount::unmount, then Ok(()) of main.
TempDirClose ==
    /\ dpc = "tempdir_close"
    /\ \E ok \in BOOLEAN : exit' = IF ok THEN "Ok" ELSE "Err"
    /\ dpc' = "returned"
    /\ UNCHANGED <<args, caps, elevated, mounted, handles, staging, stage_pos, log>>
    /\ UNCHANGED <<treeVars, codecVars, editVars, moveVars, writerVars>>

NextDeploy ==
    \/ BuildFinish
    \/ SkipDisabled
    \/ SkipSeparator
    \/ StartModWalk
    \/ PopDir
    \/ VisitEntry
    \/ ModWalkDone
    \/ CapsInit
    \/ ParseArgs
    \/ OpenInstance
    \/ BuildReturn
    \/ Unshare
    \/ SetUpUidAndGidMap
    \/ TempMountNew
    \/ ElevatedCapsRaise
    \/ MountTmpfs
    \/ StageNode
    \/ StageDone
    \/ Canonicalize
    \/ OverlayMountNew
    \/ MountOverlayfs
    \/ RunGameAndWait
    \/ WaitForSigterm
    \/ UnmountOverlay
    \/ DropOverlay
    \/ UnmountStaging
    \/ DropStaging
    \/ DropNone
    \/ TempDirClose

SpecDeploy == InitDeploy /\ [][NextDeploy]_vars

----------------------------------------------------------------------------
(* What the claims about the deployer speak of *)

\* The positions of main that only a successful build_staging_tree leads to and at
\* which no local has been dropped yet.
AfterStaging ==
    {"canonicalize", "overlay_new", "mount_overlayfs", "run", "unmount_overlay",
     "unmount_staging", "tempdir_close"}

NonRootNodes(t) == NodeIds(t) \ {RootId}

EntriesAt(p) == { e \in staging : e.path = p }

Issued(i, op, target) == log[i].op = op /\ log[i].target = target

\* The union mount is mounted when the i-th operation of the log is issued.
OverlayMountedAt(i) ==
    \E j \in 1..(i - 1) :
        /\ Issued(j, "mount", "overlay") /\ log[j].ok
        /\ \A k \in (j + 1)..(i - 1) : ~(Issued(k, "unmount", "overlay") /\ log[k].ok)

TreeBuiltBeforeStaging == (log # <<>> \/ staging # {}) => pc = "Ok"

StagedBeforeOverlay ==
    (dpc = "mount_overlayfs" \/ \E i \in 1..Len(log) : Issued(i, "mount", "overlay"))
        => \A n \in NonRootNodes(tree) : EntriesAt(PathOf(tree, n)) # {}

\* C6: once build_staging_tree has returned Ok, the staging tmpfs holds one entry per
\* non-root node of the merge tree, at the node's relative path, and nothing else: a
\* directory for a Dir node, and for a File node a symbolic link to that relative path
\* inside the directory of providing_mods[0], which is the file of the last enabled
\* mod of the order that has it.
C6_StagingMirrorsTree ==
    dpc \in AfterStaging =>
        /\ \A e \in staging : \E n \in NonRootNodes(tree) : PathOf(tree, n) = e.path
        /\ \A n \in NonRootNodes(tree) :
            LET p == PathOf(tree, n)
            IN  /\ Cardinality(EntriesAt(p)) = 1
                /\ \A e \in EntriesAt(p) :
                    IF tree[n].is_dir
                    THEN e.kind = "dir"
                    ELSE /\ e.kind = "symlink"
                         /\ e.target.mod = mod_dir(instance.mods[tree[n].providing_mods[1] + 1])
                         /\ e.target.path = p
                         /\ e.target.mod = mod_dir(instance.mods[ExpectedProviders(p)[1] + 1])
                         /\ SymlinkMetadata(disk, e.target.mod, e.target.path) = "file"

\* Staging has succeeded for a tree with a file below a directory that two mods provide.
C6_Witness ==
    /\ dpc = "canonicalize"
    /\ \E n \in NonRootNodes(tree) :
        /\ ~tree[n].is_dir
        /\ Len(tree[n].providing_mods) > 1
        /\ tree[n].parent # RootId

\* C7: the phases of the deployer are ordered: the merge tree is finished before the
\* tmpfs is mounted and before any staging entry exists, every staging entry exists
\* before the union mount is attempted, and no unmount of the tmpfs is issued while
\* the union mount is still mounted.
C7_TmpfsUnmountedAfterUnion ==
    /\ TreeBuiltBeforeStaging
    /\ StagedBeforeOverlay
    /\ \A i \in 1..Len(log) : Issued(i, "unmount", "tmpfs") => ~OverlayMountedAt(i)

\* C7, amended: the merge tree is finished before the tmpfs is mounted and before any
\* staging entry exists, every staging entry exists before the union mount is
\* attempted, and once the union is mounted no unmount of the tmpfs is issued before
\* an unmount of the union has been issued; the tmpfs unmount is issued while the
\* union is still mounted only after two unmounts of the union have failed, or one
\* when the union handle was dropped without unmount() being called.
C7_TmpfsUnmountAfterUnionUnmountIssued ==
    /\ TreeBuiltBeforeStaging
    /\ StagedBeforeOverlay
    /\ \A i \in 1..Len(log) :
        (Issued(i, "unmount", "tmpfs") /\ \E j \in 1..(i - 1) : Issued(j, "mount", "overlay") /\ log[j].ok)
            => /\ \E k \in 1..(i - 1) : Issued(k, "unmount", "overlay")
               /\ OverlayMountedAt(i) =>
                    \A k \in 1..(i - 1) : Issued(k, "unmount", "overlay") => ~log[k].ok

\* main has returned after both unmounts of the union failed and the unmount of the
\* tmpfs was issued all the same.
C7_Witness ==
    /\ exit = "Err"
    /\ mounted.overlay
    /\ \E i \in 1..Len(log) : Issued(i, "unmount", "tmpfs") /\ OverlayMountedAt(i)
    /\ Cardinality({ k \in 1..Len(log) : Issued(k, "unmount", "overlay") }) > 1

\* C8: when the staging tmpfs was mounted, an unmount of it has been issued by the
\* time main returns, whichever later step failed.
C8_TmpfsUnmountAlwaysIssued ==
    (exit # "running" /\ \E j \in 1..Len(log) : Issued(j, "mount", "tmpfs") /\ log[j].ok)
        => \E i \in 1..Len(log) : Issued(i, "unmount", "tmpfs")

\* main has returned Err because the union could not be unmounted, and the tmpfs
\* unmount was issued by the drop of staging_dir.
C8_Witness ==
    /\ exit = "Err"
    /\ handles.staging_dir = "dropped"
    /\ \E k \in 1..Len(log) : Issued(k, "unmount", "overlay") /\ ~log[k].ok
    /\ \E i \in 1..Len(log) : Issued(i, "unmount", "tmpfs")

\* C9: after caps::init, whenever no ElevatedCaps guard is alive, the effective
\* capability set is empty, in direct mode and inside the user namespace.
C9_EffectiveEmptyWithoutGuard ==
    (dpc # "start" /\ elevated = 0) => caps.effective = {}

----------------------------------------------------------------------------
(* The instance data file: serde (de)serialization through CBOR *)

\* v.try_into::<u32>().ok(): every unsigned integer of the model is below 2^32, the
\* negative ones do not fit.
FitsU32(n) == n >= 0

INSTANCE_DATA_VERSION == 0

\* CBOR data items, as the serde data model hands them to cbor4ii and back.
Uint(n) == [t |-> "uint", v |-> n]

Text(str) == [t |-> "text", v |-> str]

Bool(b) == [t |-> "bool", v |-> b]

\* A negative integer (major type 1), n < 0.
Nint(n) == [t |-> "nint", v |-> n]

\* An unsigned integer of eight bytes above the range of u32: 2^32 + n.
WideUint(n) == [t |-> "uint_wide", v |-> n]

Array(items) == [t |-> "array", v |-> items]

\* A map or struct: its entries [k, v] in the order they were written.
Map(entries) == [t |-> "map", v |-> entries]

IsText(item, str) == item.t = "text" /\ item.v = str

\* map.next_key()/next_value() gone through: the values written under one key.
FieldValues(entries, key) ==
    LET sel == SelectSeq(entries, LAMBDA e : IsText(e.k, key))
    IN  [i \in 1..Len(sel) |-> sel[i].v]

\* impl Serialize for ModDeclaration
serialize_ModDeclaration(m) ==
    IF m.kind = "Mod" THEN Text(m.name)
    ELSE Map(<<[k |-> Text("name"), v |-> Text(m.name)],
               [k |-> Text("type"), v |-> Text(m.kind)]>>)

DecodeResult(ok, value) == [ok |-> ok, value |-> value]

NoModDeclaration == [name |-> "", kind |-> "Mod"]

\* impl Deserialize for ModDeclaration: visit_str, visit_string and visit_map.
deserialize_ModDeclaration(item) ==
    IF item.t = "text" THEN DecodeResult(TRUE, [name |-> item.v, kind |-> "Mod"])
    ELSE IF item.t = "map"
    THEN LET names == FieldValues(item.v, "name")
             kinds == FieldValues(item.v, "type")
         IN  IF /\ \A i \in 1..Len(item.v) : IsText(item.v[i].k, "name") \/ IsText(item.v[i].k, "type")
                /\ Len(names) = 1 /\ names[1].t = "text"
                /\ Len(kinds) = 1 /\ kinds[1].t = "text" /\ kinds[1].v \in ModEntryKind
             THEN DecodeResult(TRUE, [name |-> names[1].v, kind |-> kinds[1].v])
             ELSE DecodeResult(FALSE, NoModDeclaration)
    ELSE DecodeResult(FALSE, NoModDeclaration)

\* impl Serialize for ModOrderEntry
serialize_ModOrderEntry(e) ==
    IF e.enabled THEN Uint(e.index)
    ELSE Map(<<[k |-> Text("i"), v |-> Uint(e.index)],
               [k |-> Text("e"), v |-> Bool(e.enabled)]>>)

\* from_idx that leaves the entry disabled.
from_idx_disabled(i) == [index |-> i, enabled |-> FALSE]

\* from_idx: Ok(ModOrderEntry { index: ModIndex(i.into()), enabled: true })
from_idx(i) == [index |-> i, enabled |-> TRUE]

NoModOrderEntry == [index |-> 0, enabled |-> FALSE]

\* impl Deserialize for ModOrderEntry: the integer visitors and visit_map.
deserialize_ModOrderEntry(item) ==
    IF item.t = "uint"
    THEN (IF FitsU32(item.v) THEN DecodeResult(TRUE, from_idx(item.v))
                               ELSE DecodeResult(FALSE, NoModOrderEntry))
    ELSE IF item.t = "map"
    THEN LET is == FieldValues(item.v, "i")
             es == FieldValues(item.v, "e")
         IN  IF /\ \A i \in 1..Len(item.v) : IsText(item.v[i].k, "i") \/ IsText(item.v[i].k, "e")
                /\ Len(is) = 1 /\ is[1].t = "uint" /\ FitsU32(is[1].v)
                /\ Len(es) = 1 /\ es[1].t = "bool"
             THEN DecodeResult(TRUE, [index |-> is[1].v, enabled |-> es[1].v])
             ELSE DecodeResult(FALSE, NoModOrderEntry)
    ELSE DecodeResult(FALSE, NoModOrderEntry)

\* The profile names of the model, in the order of a BTreeMap over them.
ProfileKeys ==
    <<"abcdefghijklmnopqrstuv10",
      "abcdefghijklmnopqrstuvw1", "abcdefghijklmnopqrstuvw2", "abcdefghijklmnopqrstuvw3",
      "abcdefghijklmnopqrstuvw4", "abcdefghijklmnopqrstuvw5", "abcdefghijklmnopqrstuvw6",
      "abcdefghijklmnopqrstuvw7", "abcdefghijklmnopqrstuvw8", "abcdefghijklmnopqrstuvw9",
      "abcdefghijklmnopqrstuvwx", "abcdefghijklmnopqrstuvwxyz",
      "alt", "default",
      "e'e'e'e'e'e'e'e'e'e'e'1", "e'e'e'e'e'e'e'e'e'e'e'2", "e'e'e'e'e'e'e'e'e'e'e'e'",
      "new", "new1",
      "zeta">>

DisplayNames == {"Alt", "Default"}

DEFAULT_PROFILE_NAME == "default"

\* BTreeMap<CompactString, Profile> built by inserting the pairs one after the other:
\* sorted by key, a later pair replacing an earlier one with the same key.
BTreeMap(pairs) ==
    LET present == SelectSeq(ProfileKeys, LAMBDA key : \E i \in 1..Len(pairs) : pairs[i].key = key)
        LastWith(key) == pairs[CHOOSE i \in 1..Len(pairs) :
                                 /\ pairs[i].key = key
                                 /\ \A j \in (i + 1)..Len(pairs) : pairs[j].key # key]
    IN  [i \in 1..Len(present) |-> LastWith(present[i])]

\* #[derive(Serialize)] for Profile, written under its key of the profiles map.
serialize_Profile(p) ==
    Map(<<[k |-> Text("display_name"), v |-> Text(p.display_name)],
          [k |-> Text("mod_order"),
           v |-> Array([i \in 1..Len(p.mod_order) |-> serialize_ModOrderEntry(p.mod_order[i])])]>>)

\* #[derive(Deserialize)] for Profile, read under the key it is stored at.
deserialize_Profile(key, item) ==
    IF item.t # "map" THEN DecodeResult(FALSE, NoProfile)
    ELSE LET names == FieldValues(item.v, "display_name")
             orders == FieldValues(item.v, "mod_order")
         IN  IF /\ Len(names) = 1 /\ names[1].t = "text"
                /\ Len(orders) = 1 /\ orders[1].t = "array"
                /\ \A i \in 1..Len(orders[1].v) : deserialize_ModOrderEntry(orders[1].v[i]).ok
             THEN DecodeResult(TRUE,
                      [key |-> key, display_name |-> names[1].v,
                       mod_order |-> [i \in 1..Len(orders[1].v) |->
                                         deserialize_ModOrderEntry(orders[1].v[i]).value]])
             ELSE DecodeResult(FALSE, NoProfile)

\* #[derive(Serialize)] for InstanceData: the version first, then mods and profiles.
serialize_InstanceData(x) ==
    Map(<<[k |-> Text("version"), v |-> Uint(INSTANCE_DATA_VERSION)],
          [k |-> Text("mods"),
           v |-> Array([i \in 1..Len(x.mods) |-> serialize_ModDeclaration(x.mods[i])])],
          [k |-> Text("profiles"),
           v |-> Map([i \in 1..Len(x.profiles) |->
                        [k |-> Text(x.profiles[i].key), v |-> serialize_Profile(x.profiles[i])]])]>>)

\* deserialize_version with VersionVisitor: the error of a version item, "None" if it
\* is INSTANCE_DATA_VERSION.
deserialize_version(item) ==
    IF item.t \in {"nint", "uint_wide"} THEN "VersionOutsideU32"
    ELSE IF item.t # "uint" THEN "Deserialize"
    ELSE IF item.v = INSTANCE_DATA_VERSION THEN "None" ELSE "UnsupportedVersion"

\* InstanceDataOpenError::UnsupportedVersion(version_str.parse().expect(..)): the
\* version read back from the message of the visitor, which a u32 can hold.
UnsupportedVersion(v) == [LoadResult("UnsupportedVersion", NoData) EXCEPT !.version = v]

deserialize_mods(item) ==
    IF item.t = "array" /\ \A i \in 1..Len(item.v) : deserialize_ModDeclaration(item.v[i]).ok
    THEN DecodeResult(TRUE, [i \in 1..Len(item.v) |-> deserialize_ModDeclaration(item.v[i]).value])
    ELSE DecodeResult(FALSE, <<>>)

deserialize_profiles(item) ==
    IF /\ item.t = "map"
       /\ \A i \in 1..Len(item.v) :
            /\ item.v[i].k.t = "text"
            /\ deserialize_Profile(item.v[i].k.v, item.v[i].v).ok
    THEN DecodeResult(TRUE, BTreeMap([i \in 1..Len(item.v) |->
                                        deserialize_Profile(item.v[i].k.v, item.v[i].v).value]))
    ELSE DecodeResult(FALSE, <<>>)

\* The error that reading the i-th field of the top-level map ends with, "None" if it
\* is read: a field met twice, a version that is not supported, a value of another shape.
FieldError(entries, i) ==
    LET e == entries[i]
    IN  IF e.k.t # "text" THEN "Deserialize"
        ELSE IF \E j \in 1..(i - 1) : e.k.v \in {"version", "mods", "profiles"} /\ IsText(entries[j].k, e.k.v)
        THEN "Deserialize"
        ELSE IF e.k.v = "version" THEN deserialize_version(e.v)
        ELSE IF e.k.v = "mods" THEN (IF deserialize_mods(e.v).ok THEN "None" ELSE "Deserialize")
        ELSE IF e.k.v = "profiles" THEN (IF deserialize_profiles(e.v).ok THEN "None" ELSE "Deserialize")
        ELSE "None"

\* UnverifiedInstanceData::from_file: cbor4ii::serde::from_reader and the mapping of
\* its error; the fields are read in the order of the file and the first error ends it.
UnverifiedInstanceData_from_file(item) ==
    IF item.t # "map" THEN LoadResult("Deserialize", NoData)
    ELSE LET failing == { i \in 1..Len(item.v) : FieldError(item.v, i) # "None" }
         IN  IF failing # {}
             THEN (IF FieldError(item.v, Min(failing)) = "UnsupportedVersion"
                   THEN UnsupportedVersion(item.v[Min(failing)].v.v)
                   ELSE LoadResult(FieldError(item.v, Min(failing)), NoData))
             ELSE IF \E f \in {"version", "mods", "profiles"} : FieldValues(item.v, f) = <<>>
             THEN LoadResult("Deserialize", NoData)
             ELSE LoadResult("None",
                      [mods |-> deserialize_mods(FieldValues(item.v, "mods")[1]).value,
                       profiles |-> deserialize_profiles(FieldValues(item.v, "profiles")[1]).value])

\* verify_profile without the test of Some(true): a repeated index goes unnoticed.
verify_profile_range_only(profile, mods_len) ==
    IF \E i \in 1..Len(profile.mod_order) : profile.mod_order[i].index >= mods_len
    THEN "ModIndexOutOfRange" ELSE "None"

\* verify_profile: the error of the first order entry that is out of range or met
\* before, "None" if there is none.
verify_profile(profile, mods_len) ==
    LET order == profile.mod_order
        bad == { i \in 1..Len(order) :
                    \/ order[i].index >= mods_len
                    \/ \E j \in 1..(i - 1) : order[j].index = order[i].index }
    IN  IF bad = {} THEN "None"
        ELSE IF order[Min(bad)].index >= mods_len THEN "ModIndexOutOfRange"
        ELSE "DuplicateModIndex"

\* UnverifiedInstanceData::verify: the profiles in key order, the first error returned.
verify(u) ==
    LET failing == { i \in 1..Len(u.profiles) : verify_profile(u.profiles[i], Len(u.mods)) # "None" }
    IN  IF failing = {} THEN LoadResult("None", u)
        ELSE LoadResult(verify_profile(u.profiles[Min(failing)], Len(u.mods)), NoData)

\* InstanceData::from_file: UnverifiedInstanceData::from_file(path)?.verify()
from_file(item) ==
    LET unverified == UnverifiedInstanceData_from_file(item)
    IN  IF unverified.ok THEN verify(unverified.data) ELSE unverified

----------------------------------------------------------------------------
(* Writing and reading the instance data file *)

\* The names of the declared mods of the data values, by position.
DataModNames == <<"A", "B">>

\* The mod lists: a prefix of the names, each entry a Mod or a Separator.
DataMods ==
    UNION { { [i \in 1..n |-> [name |-> DataModNames[i], kind |-> kinds[i]]] :
                kinds \in [1..n -> ModEntryKind] } : n \in 0..Len(DataModNames) }

\* The mod orders: any entries, with indices in and out of range, repeated or not.
DataOrders ==
    UNION { [1..n -> [index : 0..Len(DataModNames), enabled : BOOLEAN]] : n \in 0..Len(DataModNames) }

\* The profile maps: each key absent, or present with a display name and an order.
DataProfilesOver(keys, orders) ==
    { LET present == SelectSeq(ProfileKeys, LAMBDA key : key \in keys /\ f[key].present)
      IN  [i \in 1..Len(present) |->
              [key |-> present[i], display_name |-> f[present[i]].display_name,
               mod_order |-> f[present[i]].mod_order]] :
        f \in [keys ->
                  [present : BOOLEAN, display_name : DisplayNames, mod_order : orders]] }

DataProfiles == DataProfilesOver({"alt", DEFAULT_PROFILE_NAME}, DataOrders)

InitCodec ==
    /\ data \in [mods : DataMods, profiles : DataProfiles]
    /\ encoded = [t |-> "none", v |-> 0]
    /\ loaded = LoadResult("NotLoaded", NoData)
    /\ opened = NotOpened
    /\ cpc = "data"
    /\ instance = [mods |-> <<>>, mod_order |-> <<>>]
    /\ disk = [n \in Range(ModNames) |-> AbsentDir]
    /\ pc = "idle"
    /\ TreeStart
    /\ EditIdle
    /\ MoveIdle
    /\ WriterIdle
    /\ DeployIdle

\* The data serialized for the file: cbor4ii::serde::to_vec(Vec::new(), &self.data).
Serialize ==
    /\ cpc = "data"
    /\ encoded' = serialize_InstanceData(data)
    /\ cpc' = "file"
    /\ UNCHANGED <<data, loaded, opened>>
    /\ UNCHANGED <<treeVars, deployVars, editVars, moveVars, writerVars>>

\* What the version field of a file can be made to hold instead of the supported
\* version: other versions a u32 holds, a negative one, one of eight bytes.
OtherVersions == {Uint(INSTANCE_DATA_VERSION + 1), Uint(INSTANCE_DATA_VERSION + 2),
                  Nint(0 - 1), WideUint(0)}

\* The file edited by hand: the version field overwritten.
Tamper ==
    /\ cpc = "file"
    /\ \E item \in OtherVersions :
        encoded' = [encoded EXCEPT !.v[1] = [k |-> Text("version"), v |-> item]]
    /\ cpc' = "tampered"
    /\ UNCHANGED <<data, loaded, opened>>
    /\ UNCHANGED <<treeVars, deployVars, editVars, moveVars, writerVars>>

\* InstanceData::from_file on the file. A version that no u32 holds either is
\* refused by the decoder before the visitor sees it (Deserialize), or reaches the
\* visitor, whose message then fails version_str.parse().expect(..): a panic.
FromFile ==
    /\ cpc \in {"file", "tampered"}
    /\ loaded' \in IF from_file(encoded).error = "VersionOutsideU32"
                   THEN {LoadResult("Deserialize", NoData), LoadResult("Panic", NoData)}
                   ELSE {from_file(encoded)}
    /\ cpc' = "loaded"
    /\ UNCHANGED <<data, encoded, opened>>
    /\ UNCHANGED <<treeVars, deployVars, editVars, moveVars, writerVars>>

NextCodec ==
    \/ Serialize
    \/ FromFile

SpecCodec == InitCodec /\ [][NextCodec]_vars

\* Files with the version field overwritten, of data whose orders are empty.
InitTamper ==
    /\ data \in [mods : DataMods, profiles : DataProfilesOver({"alt", DEFAULT_PROFILE_NAME}, {<<>>})]
    /\ encoded = [t |-> "none", v |-> 0]
    /\ loaded = LoadResult("NotLoaded", NoData)
    /\ opened = NotOpened
    /\ cpc = "data"
    /\ instance = [mods |-> <<>>, mod_order |-> <<>>]
    /\ disk = [n \in Range(ModNames) |-> AbsentDir]
    /\ pc = "idle"
    /\ TreeStart
    /\ EditIdle
    /\ MoveIdle
    /\ WriterIdle
    /\ DeployIdle

\* data.profiles.pop_first(): the profile with the least key.
pop_first_last(profiles) == profiles[Len(profiles)]

pop_first(profiles) == profiles[1]

\* The states a path given as the instance directory can be in.
DirStates == {"dir", "missing", "no_metadata", "file"}

\* DeployInstance::open(dir, profile_name), from_file having returned res.
DeployInstance_open(dir, profile_name, res) ==
    LET profiles == res.data.profiles
        Named(name) == SelectSeq(profiles, LAMBDA p : p.key = name)
        Err(error) == OpenResult(profile_name, error, <<>>, NoProfile)
        Ok(profile) == OpenResult(profile_name, "None", res.data.mods, profile)
    IN  IF dir = "missing" THEN Err("DirCanonicalize")
        ELSE IF dir = "no_metadata" THEN Err("DirMetadata")
        ELSE IF dir # "dir" THEN Err("NotADirectory")
        ELSE IF ~res.ok THEN Err("DataOpen")
        ELSE IF profile_name.some
             THEN (IF Named(profile_name.name) # <<>> THEN Ok(Named(profile_name.name)[1])
                   ELSE Err("ProfileNotFound"))
        ELSE IF Named(DEFAULT_PROFILE_NAME) # <<>> THEN Ok(Named(DEFAULT_PROFILE_NAME)[1])
        ELSE IF profiles # <<>> THEN Ok(pop_first(profiles))
        ELSE Err("NoProfiles")

\* The --profile arguments: none, the name of a key, or a name that is no key.
ProfileNames == {None} \cup {Some(n) : n \in {"alt", DEFAULT_PROFILE_NAME, "zeta", "missing"}}

\* Instance directories whose orders are empty or hold index 0.
InitOpen ==
    /\ data \in [mods : DataMods,
                 profiles : DataProfilesOver({"alt", DEFAULT_PROFILE_NAME, "zeta"},
                                             {<<>>, <<[index |-> 0, enabled |-> TRUE]>>})]
    /\ encoded = [t |-> "none", v |-> 0]
    /\ loaded = LoadResult("NotLoaded", NoData)
    /\ opened = NotOpened
    /\ cpc = "data"
    /\ instance = [mods |-> <<>>, mod_order |-> <<>>]
    /\ disk = [n \in Range(ModNames) |-> AbsentDir]
    /\ pc = "idle"
    /\ TreeStart
    /\ EditIdle
    /\ MoveIdle
    /\ WriterIdle
    /\ DeployIdle

\* DeployInstance::open on a directory whose data file is the file written. The
\* file is read only when the directory checks pass.
DeployOpen ==
    /\ cpc = "file"
    /\ \E dir \in DirStates, profile_name \in ProfileNames :
        /\ loaded' = IF dir = "dir" THEN from_file(encoded) ELSE loaded
        /\ opened' = DeployInstance_open(dir, profile_name, loaded')
    /\ cpc' = "opened"
    /\ UNCHANGED <<data, encoded>>
    /\ UNCHANGED <<treeVars, deployVars, editVars, moveVars, writerVars>>

NextOpen ==
    \/ Serialize
    \/ DeployOpen

SpecOpen == InitOpen /\ [][NextOpen]_vars

NextTamper ==
    \/ Serialize
    \/ Tamper
    \/ FromFile

SpecTamper == InitTamper /\ [][NextTamper]_vars

\* The invariants from_file verifies: in every profile, each order entry points into
\* the mod list and no mod index occurs twice.
LoadInvariants(x) ==
    \A p \in 1..Len(x.profiles) :
        LET order == x.profiles[p].mod_order
        IN  /\ \A i \in 1..Len(order) : order[i].index < Len(x.mods)
            /\ \A i, j \in 1..Len(order) : order[i].index = order[j].index => i = j

\* C10: for every instance data value that satisfies the load invariants, loading its
\* serialization succeeds and yields the same mods (names and kinds), the same profile
\* keys and display names and the same order entries (index and enabled, in order).
C10_LoadOfSerializeIsIdentity ==
    (cpc = "loaded" /\ LoadInvariants(data)) =>
        /\ loaded.ok
        /\ Len(loaded.data.mods) = Len(data.mods)
        /\ \A i \in 1..Len(data.mods) :
            /\ loaded.data.mods[i].name = data.mods[i].name
            /\ loaded.data.mods[i].kind = data.mods[i].kind
        /\ Len(loaded.data.profiles) = Len(data.profiles)
        /\ \A p \in 1..Len(data.profiles) :
            /\ loaded.data.profiles[p].key = data.profiles[p].key
            /\ loaded.data.profiles[p].display_name = data.profiles[p].display_name
            /\ Len(loaded.data.profiles[p].mod_order) = Len(data.profiles[p].mod_order)
            /\ \A i \in 1..Len(data.profiles[p].mod_order) :
                /\ loaded.data.profiles[p].mod_order[i].index = data.profiles[p].mod_order[i].index
                /\ loaded.data.profiles[p].mod_order[i].enabled = data.profiles[p].mod_order[i].enabled

\* A file has been loaded whose data has a Mod and a Separator, two profiles, and an
\* order with an enabled entry before a disabled one.
C10_Witness ==
    /\ cpc = "loaded"
    /\ loaded.ok
    /\ LoadInvariants(data)
    /\ \E i, j \in 1..Len(data.mods) : data.mods[i].kind = "Mod" /\ data.mods[j].kind = "Separator"
    /\ Len(data.profiles) > 1
    /\ \E p \in 1..Len(data.profiles) :
        \E i, j \in 1..Len(data.profiles[p].mod_order) :
            /\ i < j
            /\ data.profiles[p].mod_order[i].enabled
            /\ ~data.profiles[p].mod_order[j].enabled

\* Some profile of x has an order entry whose index is not below mods.len().
HasIndexOutOfRange(x) ==
    \E p \in 1..Len(x.profiles) :
        \E i \in 1..Len(x.profiles[p].mod_order) : x.profiles[p].mod_order[i].index >= Len(x.mods)

\* Some profile of x has the same index in two order entries.
HasDuplicateIndex(x) ==
    \E p \in 1..Len(x.profiles) :
        \E i, j \in 1..Len(x.profiles[p].mod_order) :
            i # j /\ x.profiles[p].mod_order[i].index = x.profiles[p].mod_order[j].index

\* C11: from_file on a decodable file of the supported version succeeds exactly when,
\* in every profile, each index is below mods.len() and no index occurs twice;
\* otherwise it fails with DuplicateModIndex (only when an index is repeated) or
\* ModIndexOutOfRange (only when an index is out of range) and returns no data.
C11_LoadVerifies ==
    cpc = "loaded" =>
        /\ loaded.ok <=> (~HasIndexOutOfRange(data) /\ ~HasDuplicateIndex(data))
        /\ ~loaded.ok =>
            /\ loaded.error \in {"DuplicateModIndex", "ModIndexOutOfRange"}
            /\ loaded.data = NoData
            /\ loaded.error = "DuplicateModIndex" => HasDuplicateIndex(data)
            /\ loaded.error = "ModIndexOutOfRange" => HasIndexOutOfRange(data)
            /\ ~HasIndexOutOfRange(data) => loaded.error = "DuplicateModIndex"
            /\ ~HasDuplicateIndex(data) => loaded.error = "ModIndexOutOfRange"

\* A file whose second profile repeats an index, all indices in range, was refused.
C11_Witness ==
    /\ cpc = "loaded"
    /\ loaded.error = "DuplicateModIndex"
    /\ Len(data.profiles) > 1
    /\ ~HasIndexOutOfRange(data)
    /\ \A i, j \in 1..Len(data.profiles[1].mod_order) :
        data.profiles[1].mod_order[i].index = data.profiles[1].mod_order[j].index => i = j

\* The item in the version field of the file.
VersionInFile == encoded.v[1].v

\* C12: for every integer v other than the supported version that the version field
\* can hold, signed or unsigned, of any width, from_file returns UnsupportedVersion
\* carrying v: not Ok, not the Deserialize failure, and no abort.
C12_OtherVersionIsUnsupported ==
    (cpc = "loaded" /\ VersionInFile # Uint(INSTANCE_DATA_VERSION)) =>
        /\ loaded.error = "UnsupportedVersion"
        /\ VersionInFile.t \in {"uint", "nint"} => loaded.version = VersionInFile.v

\* The position of a key in the order of the profile map.
KeyRank(key) == CHOOSE i \in 1..Len(ProfileKeys) : ProfileKeys[i] = key

\* The keys of the profiles of the data that was read.
LoadedKeys == { loaded.data.profiles[i].key : i \in 1..Len(loaded.data.profiles) }

\* The profile stored under a key of the data that was read.
LoadedProfile(key) ==
    loaded.data.profiles[CHOOSE i \in 1..Len(loaded.data.profiles) :
                             loaded.data.profiles[i].key = key]

\* DeployInstance::open got to the selection of the profile.
OpenSelected == cpc = "opened" /\ loaded.ok /\ opened.error \notin {"DirCanonicalize", "DirMetadata", "NotADirectory"}

\* The key that the order of precedence gives: the name asked for if it is a key,
\* else "default" if it is a key, else the least key; "" when there is no key.
PrecedenceKey ==
    IF opened.profile_name.some /\ opened.profile_name.name \in LoadedKeys
    THEN opened.profile_name.name
    ELSE IF DEFAULT_PROFILE_NAME \in LoadedKeys THEN DEFAULT_PROFILE_NAME
    ELSE IF LoadedKeys # {}
         THEN CHOOSE k \in LoadedKeys : \A other \in LoadedKeys : KeyRank(k) <= KeyRank(other)
         ELSE ""

\* C13 as stated: DeployInstance::open selects the caller-specified profile, then
\* "default", then the lexicographically first profile, whichever exists first in
\* that order, and fails with NoProfiles when none can be selected.
C13_SelectsByPrecedence ==
    OpenSelected =>
        IF PrecedenceKey = "" THEN opened.error = "NoProfiles"
        ELSE opened.ok /\ opened.profile = LoadedProfile(PrecedenceKey)

\* C13 amended: a name given by the caller selects the profile of that name and
\* nothing else: open fails with ProfileNotFound when there is no such profile.
\* Without a name "default" is selected whenever it exists, else the profile with
\* the least key, and open fails with NoProfiles when there is no profile at all.
C13_NamedOrDefaultOrFirst ==
    OpenSelected =>
        IF opened.profile_name.some
        THEN IF opened.profile_name.name \in LoadedKeys
             THEN opened.ok /\ opened.profile = LoadedProfile(opened.profile_name.name)
             ELSE opened.error = "ProfileNotFound"
        ELSE IF PrecedenceKey = "" THEN opened.error = "NoProfiles"
             ELSE /\ opened.ok
                  /\ opened.profile = LoadedProfile(PrecedenceKey)
                  /\ opened.mods = loaded.data.mods

\* No name given, no "default", two other profiles: the lesser key is selected.
C13_Witness ==
    /\ OpenSelected
    /\ ~opened.profile_name.some
    /\ LoadedKeys = {"alt", "zeta"}
    /\ opened.ok
    /\ opened.profile.key = "alt"

----------------------------------------------------------------------------
(* The editable instance (edit/src/instance.rs, edit/src/util.rs) *)

\* BTreeMap::contains_key, get and insert on a profile map.
contains_key(profiles, key) == \E i \in 1..Len(profiles) : profiles[i].key = key

get(profiles, key) == profiles[CHOOSE i \in 1..Len(profiles) : profiles[i].key = key]

insert(profiles, key, profile) ==
    BTreeMap(Append(profiles, [key |-> key, display_name |-> profile.display_name,
                               mod_order |-> profile.mod_order]))

\* mod_order(): the order of the current profile.
mod_order(profiles, current) == get(profiles, current).mod_order

\* mod_order_mut(): the profiles with the order of the current profile replaced.
mod_order_mut(profiles, current, order) ==
    [i \in 1..Len(profiles) |->
        IF profiles[i].key = current THEN [profiles[i] EXCEPT !.mod_order = order]
        ELSE profiles[i]]

\* ModOrderEntry::new(index): a disabled entry.
ModOrderEntry_new_enabled(index) == [index |-> index, enabled |-> TRUE]

ModOrderEntry_new(index) == [index |-> index, enabled |-> FALSE]

DEFAULT_PROFILE == [display_name |-> "Default", mod_order |-> <<>>]

\* Profile::new(display_name): a profile without entries.
Profile_new(display_name) == [display_name |-> display_name, mod_order |-> <<>>]

\* ModOrderEntry::decrement_index.
decrement_index(entry) == [entry EXCEPT !.index = @ - 1]

\* The names a mod can be given: the names that pass ModDeclaration::is_name_valid,
\* and a name with a control character, which a directory can have.
ControlCharNames == {"tab\tname"}

is_name_valid(name) == name \notin ControlCharNames

\* The edit crate's mod_dir: Some(path) for a Mod, None for a Separator.
has_mod_dir(decl) == decl.kind = "Mod"

\* add_missing_mods_to_mod_order on an order, mods being self.mods().len().
add_missing_mods_to_mod_order_enabled(mods, order) ==
    order \o [i \in 1..(mods - Len(order)) |-> [index |-> i - 1, enabled |-> TRUE]]

add_missing_mods_to_mod_order(mods, order) ==
    IF mods < Len(order) THEN order
    ELSE LET missing == SelectSeq([i \in 1..mods |-> i - 1],
                                  LAMBDA idx : \A e \in 1..Len(order) : order[e].index # idx)
         IN  order \o [i \in 1..Len(missing) |-> ModOrderEntry_new(missing[i])]

\* EditableInstance::open once from_file returned d: the data and the current profile.
EditableInstance_open(d) ==
    LET default == DEFAULT_PROFILE_NAME
        profiles == IF d.profiles = <<>> THEN insert(d.profiles, default, DEFAULT_PROFILE)
                    ELSE d.profiles
        current == IF contains_key(d.profiles, default) THEN default
                   ELSE IF d.profiles # <<>> THEN d.profiles[1].key
                   ELSE default
    IN  [data |-> [mods |-> d.mods,
                   profiles |-> mod_order_mut(profiles, current,
                                    add_missing_mods_to_mod_order(Len(d.mods),
                                                                  mod_order(profiles, current)))],
         current_profile |-> current]

\* The orders of the profiles of the files that are opened.
EditFileOrders ==
    {<<>>, <<[index |-> 1, enabled |-> TRUE]>>, <<[index |-> 0, enabled |-> FALSE]>>,
     <<[index |-> 1, enabled |-> TRUE], [index |-> 0, enabled |-> TRUE]>>}

EditFileProfiles ==
    { LET present == SelectSeq(ProfileKeys, LAMBDA key : key \in DOMAIN f /\ f[key].present)
      IN  [i \in 1..Len(present) |->
              [key |-> present[i],
               display_name |-> IF present[i] = DEFAULT_PROFILE_NAME THEN "Default" ELSE present[i],
               mod_order |-> f[present[i]].mod_order]] :
        f \in [{"alt", DEFAULT_PROFILE_NAME} -> [present : BOOLEAN, mod_order : EditFileOrders]] }

\* The instance data files that from_file accepts.
EditFiles ==
    { d \in [mods : DataMods, profiles : EditFileProfiles] :
        from_file(serialize_InstanceData(d)).ok }

\* The state after EditableInstance::open returned Ok: the data of a file, the
\* directories of its mods on disk.
InitEdit ==
    /\ \E d \in EditFiles :
        LET o == EditableInstance_open(from_file(serialize_InstanceData(d)).data)
        IN  /\ data = o.data
            /\ current_profile = o.current_profile
            /\ mods_dir = { d.mods[i].name : i \in { j \in 1..Len(d.mods) : has_mod_dir(d.mods[j]) } }
    /\ changed = FALSE
    /\ ret = Return("open", "None")
    /\ epc = "open"
    /\ encoded = [t |-> "none", v |-> 0]
    /\ loaded = LoadResult("NotLoaded", NoData)
    /\ opened = NotOpened
    /\ cpc = "idle"
    /\ instance = [mods |-> <<>>, mod_order |-> <<>>]
    /\ disk = [n \in Range(ModNames) |-> AbsentDir]
    /\ pc = "idle"
    /\ TreeStart
    /\ DeployIdle
    /\ MoveIdle
    /\ WriterIdle

\* switch_to_profile(profile_name).
switch_to_profile(profile_name) ==
    /\ ret' = Return("switch_to_profile", "None")
    /\ IF ~contains_key(data.profiles, profile_name)
       THEN UNCHANGED <<data, current_profile>>
       ELSE /\ current_profile' = profile_name
            /\ data' = [data EXCEPT !.profiles =
                           mod_order_mut(data.profiles, profile_name,
                               add_missing_mods_to_mod_order(Len(data.mods),
                                   mod_order(data.profiles, profile_name)))]
    /\ UNCHANGED <<changed, mods_dir, epc>>

\* str::trim: the name without the spaces at its start and at its end.
RECURSIVE trim_start(_)
trim_start(name) ==
    IF name # "" /\ SubSeq(name, 1, 1) = " " THEN trim_start(SubSeq(name, 2, Len(name)))
    ELSE name

RECURSIVE trim_end(_)
trim_end(name) ==
    IF name # "" /\ SubSeq(name, Len(name), Len(name)) = " "
    THEN trim_end(SubSeq(name, 1, Len(name) - 1))
    ELSE name

trim(name) == trim_end(trim_start(name))

\* s.graphemes(true): the grapheme clusters of a string. A character of the model
\* is one byte; a character followed by an apostrophe stands for a cluster of two
\* bytes (a letter with an accent), every other character is a cluster of its own.
RECURSIVE graphemes(_)
graphemes(s) ==
    IF s = "" THEN <<>>
    ELSE LET n == IF Len(s) >= 2 /\ SubSeq(s, 2, 2) = "'" THEN 2 ELSE 1
         IN  <<SubSeq(s, 1, n)>> \o graphemes(SubSeq(s, n + 1, Len(s)))

\* The loop of truncate_str: clusters are pushed while the next one still fits.
RECURSIVE push_clusters(_, _, _)
push_clusters(truncated, clusters, len) ==
    IF clusters = <<>> THEN truncated
    ELSE IF Len(truncated) + Len(Head(clusters)) > len THEN truncated
    ELSE push_clusters(truncated \o Head(clusters), Tail(clusters), len)

\* truncate_str(s, len): the longest run of whole clusters of at most len bytes.
truncate_str_whole(s, len) == s

truncate_str(s, len) == push_clusters("", graphemes(s), len)

\* add_profile's limit on the length of a key, in bytes.
LIMIT == 24

\* The key add_profile settles on: the truncated name, then the name truncated to
\* leave room for the digits of n and followed by them, for n = 1, 2, ...
RECURSIVE actual_name(_, _, _)
actual_name(profiles, truncated_name, n) ==
    LET candidate == IF n = 0 THEN truncated_name
                     ELSE truncate_str(truncated_name, LIMIT - Len(ToString(n))) \o ToString(n)
    IN  IF contains_key(profiles, candidate) THEN actual_name(profiles, truncated_name, n + 1)
        ELSE candidate

\* add_profile(name), for the names whose key is one of ProfileKeys.
add_profile(name) ==
    LET key == actual_name(data.profiles, truncate_str(trim(name), LIMIT), 0)
    IN  /\ key \in Range(ProfileKeys)
        /\ changed' = TRUE
        /\ data' = [data EXCEPT !.profiles = insert(data.profiles, key, Profile_new(trim(name)))]
        /\ ret' = [op |-> "add_profile", error |-> "None", key |-> key]
        /\ UNCHANGED <<current_profile, mods_dir, epc>>

\* self.mods().iter().any(|m| m.name() == name).
any_name_never(mods, name) == FALSE

any_name(mods, name) == \E i \in 1..Len(mods) : mods[i].name = name

\* create_mod(name, kind); init_ok tells whether Mod::init manages to create the
\* directory of a Mod.
create_mod(name, kind, init_ok) ==
    IF any_name(data.mods, name)
    THEN /\ ret' = Return("create_mod", "AlreadyExists")
         /\ UNCHANGED <<data, current_profile, changed, mods_dir, epc>>
    ELSE IF ~is_name_valid(name)
    THEN /\ ret' = Return("create_mod", "InvalidName")
         /\ UNCHANGED <<data, current_profile, changed, mods_dir, epc>>
    ELSE /\ changed' = TRUE
         /\ data' = [mods |-> Append(data.mods, [name |-> name, kind |-> kind]),
                     profiles |-> mod_order_mut(data.profiles, current_profile,
                                      Append(mod_order(data.profiles, current_profile),
                                             ModOrderEntry_new(Len(data.mods))))]
         /\ IF kind = "Mod" /\ ~init_ok
            THEN /\ ret' = Return("create_mod", "Init")
                 /\ UNCHANGED mods_dir
            ELSE /\ ret' = Return("create_mod", "None")
                 /\ mods_dir' = IF kind = "Mod" THEN mods_dir \cup {name} ELSE mods_dir
         /\ UNCHANGED <<current_profile, epc>>

\* p.mod_order.retain_mut(..) of remove_mod on one order.
retain_mut_keep_index(order, idx) == SelectSeq(order, LAMBDA entry : entry.index # idx)

retain_mut_keep_entry(order, idx) ==
    [i \in 1..Len(order) |->
        IF order[i].index > idx THEN decrement_index(order[i]) ELSE order[i]]

retain_mut(order, idx) ==
    LET kept == SelectSeq(order, LAMBDA entry : entry.index # idx)
    IN  [i \in 1..Len(kept) |->
            IF kept[i].index > idx THEN decrement_index(kept[i]) ELSE kept[i]]

\* TiVec::remove(idx).
remove(mods, idx) == SubSeq(mods, 1, idx) \o SubSeq(mods, idx + 2, Len(mods))

\* remove_mod(idx), idx a ModIndex of the mod list.
remove_mod(idx) ==
    /\ changed' = TRUE
    /\ data' = [mods |-> remove(data.mods, idx),
                profiles |-> [i \in 1..Len(data.profiles) |->
                                 [data.profiles[i] EXCEPT !.mod_order = retain_mut(@, idx)]]]
    /\ ret' = Return("remove_mod", "None")
    /\ UNCHANGED <<current_profile, mods_dir, epc>>

\* rename_mod(idx, new_name); rename_ok tells whether fs::rename succeeds when the
\* directory of the mod exists.
rename_mod(idx, new_name, rename_ok) ==
    LET mod_decl == data.mods[idx + 1]
        renamed == has_mod_dir(mod_decl) /\ mod_decl.name \in mods_dir /\ rename_ok
    IN  IF any_name(data.mods, new_name)
        THEN /\ ret' = Return("rename_mod", "AlreadyExists")
             /\ UNCHANGED <<data, current_profile, changed, mods_dir, epc>>
        ELSE IF has_mod_dir(mod_decl) /\ ~renamed
        THEN /\ ret' = Return("rename_mod", "Io")
             /\ UNCHANGED <<data, current_profile, changed, mods_dir, epc>>
        ELSE /\ mods_dir' = IF renamed THEN (mods_dir \ {mod_decl.name}) \cup {new_name}
                            ELSE mods_dir
             /\ IF is_name_valid(new_name)
                THEN /\ data' = [data EXCEPT !.mods[idx + 1] =
                                    [name |-> new_name, kind |-> mod_decl.kind]]
                     /\ ret' = Return("rename_mod", "None")
                ELSE /\ ret' = Return("rename_mod", "InvalidName")
                     /\ UNCHANGED data
             /\ UNCHANGED <<current_profile, changed, epc>>

\* toggle_mod_enabled(index), index a ModOrderIndex of the active order.
toggle_mod_enabled(index) ==
    /\ changed' = TRUE
    /\ data' = [data EXCEPT !.profiles =
                   mod_order_mut(data.profiles, current_profile,
                       [mod_order(data.profiles, current_profile) EXCEPT
                           ![index + 1].enabled = ~@])]
    /\ ret' = Return("toggle_mod_enabled", "None")
    /\ UNCHANGED <<current_profile, mods_dir, epc>>

\* The elements of a set of indices in ascending order (sort_unstable).
RECURSIVE sort_unstable(_)
sort_unstable(indices) ==
    IF indices = {} THEN <<>>
    ELSE LET least == CHOOSE i \in indices : \A j \in indices : i <= j
         IN  <<least>> \o sort_unstable(indices \ {least})

\* The swaps move_multiple makes, in order, each as the pair of positions swapped:
\* the items of the left part from the last to the first, each moved right to
\* to + i, then the items of the right part, each moved left to to + left.len() + i.
RECURSIVE Flatten(_)
Flatten(seqs) == IF seqs = <<>> THEN <<>> ELSE Head(seqs) \o Flatten(Tail(seqs))

\* move_multiple with the left part taken from its first item to its last.
move_multiple_swaps_forward(from, to) ==
    LET item_indices == sort_unstable(from)
        split_point == Cardinality({ i \in 1..Len(item_indices) : item_indices[i] <= to + (i - 1) })
        left == SubSeq(item_indices, 1, split_point)
        right == SubSeq(item_indices, split_point + 1, Len(item_indices))
        LeftSwaps(i) == [k \in 1..((to + i) - left[i + 1]) |->
                            <<left[i + 1] + k - 1, left[i + 1] + k>>]
        RightSwaps(i) == [k \in 1..(right[i + 1] - (to + Len(left) + i)) |->
                             <<right[i + 1] - k + 1, right[i + 1] - k>>]
    IN  Flatten([j \in 1..Len(left) |-> LeftSwaps(j - 1)])
            \o Flatten([j \in 1..Len(right) |-> RightSwaps(j - 1)])

\* move_multiple with the right part moved to to + i, the left part not counted.
move_multiple_swaps_uncounted(from, to) ==
    LET item_indices == sort_unstable(from)
        split_point == Cardinality({ i \in 1..Len(item_indices) : item_indices[i] <= to + (i - 1) })
        left == SubSeq(item_indices, 1, split_point)
        right == SubSeq(item_indices, split_point + 1, Len(item_indices))
        LeftSwaps(i) == [k \in 1..((to + i) - left[i + 1]) |->
                            <<left[i + 1] + k - 1, left[i + 1] + k>>]
        RightSwaps(i) == [k \in 1..(right[i + 1] - (to + i)) |->
                             <<right[i + 1] - k + 1, right[i + 1] - k>>]
    IN  Flatten([j \in 1..Len(left) |-> LeftSwaps(Len(left) - j)])
            \o Flatten([j \in 1..Len(right) |-> RightSwaps(j - 1)])

move_multiple_swaps(from, to) ==
    LET item_indices == sort_unstable(from)
        split_point == Cardinality({ i \in 1..Len(item_indices) : item_indices[i] <= to + (i - 1) })
        left == SubSeq(item_indices, 1, split_point)
        right == SubSeq(item_indices, split_point + 1, Len(item_indices))
        LeftSwaps(i) == [k \in 1..((to + i) - left[i + 1]) |->
                            <<left[i + 1] + k - 1, left[i + 1] + k>>]
        RightSwaps(i) == [k \in 1..(right[i + 1] - (to + Len(left) + i)) |->
                             <<right[i + 1] - k + 1, right[i + 1] - k>>]
    IN  Flatten([j \in 1..Len(left) |-> LeftSwaps(Len(left) - j)])
            \o Flatten([j \in 1..Len(right) |-> RightSwaps(j - 1)])

\* slice.swap for each pair in turn; a position outside the slice panics and leaves
\* the slice as the swaps before it made it.
RECURSIVE swap_all(_, _)
swap_all(slice, swaps) ==
    IF swaps = <<>> THEN [slice |-> slice, panicked |-> FALSE]
    ELSE LET a == Head(swaps)[1]
             b == Head(swaps)[2]
         IN  IF a >= Len(slice) \/ b >= Len(slice) THEN [slice |-> slice, panicked |-> TRUE]
             ELSE swap_all([slice EXCEPT ![a + 1] = slice[b + 1], ![b + 1] = slice[a + 1]],
                           Tail(swaps))

move_multiple(slice, from, to) == swap_all(slice, move_multiple_swaps(from, to))

\* move_mods(mods_to_move, to), on ModOrderIndexes of the active order.
move_mods(mods_to_move, to) ==
    LET moved == move_multiple(mod_order(data.profiles, current_profile), mods_to_move, to)
    IN  /\ changed' = TRUE
        /\ data' = [data EXCEPT !.profiles =
                       mod_order_mut(data.profiles, current_profile, moved.slice)]
        /\ ret' = Return("move_mods", IF moved.panicked THEN "Panic" ELSE "None")
        /\ epc' = IF moved.panicked THEN "panicked" ELSE epc
        /\ UNCHANGED <<current_profile, mods_dir>>

\* The names that the calls are given.
EditModNames == Range(DataModNames) \cup ControlCharNames

EditProfileNames == {" alt ", DEFAULT_PROFILE_NAME, "missing"}

ActiveIndices == 0..(Len(mod_order(data.profiles, current_profile)) - 1)

SwitchToProfile ==
    /\ epc = "open"
    /\ \E profile_name \in EditProfileNames : switch_to_profile(profile_name)
    /\ UNCHANGED <<encoded, loaded, opened, cpc>>
    /\ UNCHANGED <<treeVars, deployVars, moveVars, writerVars>>

AddProfile ==
    /\ epc = "open"
    /\ \E name \in EditProfileNames : add_profile(name)
    /\ UNCHANGED <<encoded, loaded, opened, cpc>>
    /\ UNCHANGED <<treeVars, deployVars, moveVars, writerVars>>

CreateMod ==
    /\ epc = "open"
    /\ \E name \in EditModNames, kind \in ModEntryKind, init_ok \in BOOLEAN :
        create_mod(name, kind, init_ok)
    /\ UNCHANGED <<encoded, loaded, opened, cpc>>
    /\ UNCHANGED <<treeVars, deployVars, moveVars, writerVars>>

RemoveMod ==
    /\ epc = "open"
    /\ \E idx \in 0..(Len(data.mods) - 1) : remove_mod(idx)
    /\ UNCHANGED <<encoded, loaded, opened, cpc>>
    /\ UNCHANGED <<treeVars, deployVars, moveVars, writerVars>>

RenameMod ==
    /\ epc = "open"
    /\ \E idx \in 0..(Len(data.mods) - 1), new_name \in EditModNames, rename_ok \in BOOLEAN :
        rename_mod(idx, new_name, rename_ok)
    /\ UNCHANGED <<encoded, loaded, opened, cpc>>
    /\ UNCHANGED <<treeVars, deployVars, moveVars, writerVars>>

ToggleModEnabled ==
    /\ epc = "open"
    /\ \E index \in ActiveIndices : toggle_mod_enabled(index)
    /\ UNCHANGED <<encoded, loaded, opened, cpc>>
    /\ UNCHANGED <<treeVars, deployVars, moveVars, writerVars>>

MoveMods ==
    /\ epc = "open"
    /\ \E mods_to_move \in SUBSET ActiveIndices, to \in ActiveIndices :
        move_mods(mods_to_move, to)
    /\ UNCHANGED <<encoded, loaded, opened, cpc>>
    /\ UNCHANGED <<treeVars, deployVars, moveVars, writerVars>>

NextEdit ==
    \/ SwitchToProfile
    \/ AddProfile
    \/ CreateMod
    \/ RemoveMod
    \/ RenameMod
    \/ ToggleModEnabled
    \/ MoveMods

SpecEdit == InitEdit /\ [][NextEdit]_vars

----------------------------------------------------------------------------
(* The editable instance: what is claimed *)

\* The order of the active profile.
ActiveOrder == mod_order(data.profiles, current_profile)

\* The entries of an order that hold a given ModIndex.
EntriesOf(order, idx) == { k \in 1..Len(order) : order[k].index = idx }

\* C14: after any sequence of create_mod, remove_mod, rename_mod, toggle_mod_enabled,
\* move_mods, add_profile and switch_to_profile on an opened instance, every profile,
\* active or not, has all its indices in [0, mods.len()) and none twice: the data
\* written to a file would pass the verification of from_file.
C14_EveryProfileVerifies ==
    epc # "idle" =>
        /\ \A p \in 1..Len(data.profiles) :
            LET order == data.profiles[p].mod_order
            IN  /\ \A k \in 1..Len(order) : order[k].index \in 0..(Len(data.mods) - 1)
                /\ \A k, l \in 1..Len(order) : order[k].index = order[l].index => k = l
        /\ from_file(serialize_InstanceData(data)).ok

\* A mod was removed and two profiles still hold entries.
C14_Witness ==
    /\ epc = "open"
    /\ ret.op = "remove_mod"
    /\ Len(data.mods) > 0
    /\ Len(data.profiles) > 1
    /\ \A p \in 1..Len(data.profiles) : data.profiles[p].mod_order # <<>>

\* The active order holds each ModIndex of the mod list exactly once.
ActiveOrderComplete ==
    epc # "idle" =>
        /\ contains_key(data.profiles, current_profile)
        /\ Len(ActiveOrder) = Len(data.mods)
        /\ \A idx \in 0..(Len(data.mods) - 1) : Cardinality(EntriesOf(ActiveOrder, idx)) = 1

\* The entries of old are the first entries of new, and the others are disabled.
AppendedDisabled(old, new) ==
    /\ IsPrefix(old, new)
    /\ \A k \in (Len(old) + 1)..Len(new) : ~new[k].enabled

\* EditableInstance::open keeps the entries of the profile it selects and appends
\* disabled ones: so it is for every file whose opening gives the state.
OpenAppendsDisabled ==
    ret.op = "open" =>
        \A d \in EditFiles :
            (EditableInstance_open(d) = [data |-> data, current_profile |-> current_profile]) =>
                AppendedDisabled(IF contains_key(d.profiles, current_profile)
                                 THEN mod_order(d.profiles, current_profile) ELSE <<>>,
                                 ActiveOrder)

\* switch_to_profile keeps the entries of the profile it selects and appends
\* disabled ones.
SwitchAppendsDisabled ==
    (ret'.op = "switch_to_profile" /\ contains_key(data.profiles, current_profile')) =>
        AppendedDisabled(mod_order(data.profiles, current_profile'),
                         mod_order(data'.profiles, current_profile'))

RemovedFrom(old, new, idx) ==
    LET survivors == { k \in 1..Len(old) : old[k].index # idx }
        \* the position among the survivors of the entry at position k
        Rank(k) == Cardinality({ l \in survivors : l <= k })
    IN  /\ Len(new) = Cardinality(survivors)
        /\ \A k \in survivors :
            /\ new[Rank(k)].enabled = old[k].enabled
            /\ old[k].index < idx => new[Rank(k)].index = old[k].index
            /\ old[k].index > idx => new[Rank(k)].index = old[k].index - 1
            /\ data'.mods[new[Rank(k)].index + 1] = data.mods[old[k].index + 1]

\* C16: after remove_mod(i) the declarations of the other mods are unchanged and in
\* the same order; in every profile the entry of i is gone, an entry with an index
\* below i is unchanged, one with an index above i has it decremented by one, and
\* the entries that remain keep their order and flags, so each still refers to the
\* declaration it referred to.
C16_RemoveModShiftsIndices ==
    [][\A idx \in 0..(Len(data.mods) - 1) :
        remove_mod(idx) =>
            /\ Len(data'.mods) = Len(data.mods) - 1
            /\ \A j \in 1..idx : data'.mods[j] = data.mods[j]
            /\ \A j \in (idx + 2)..Len(data.mods) : data'.mods[j - 1] = data.mods[j]
            /\ Len(data'.profiles) = Len(data.profiles)
            /\ \A p \in 1..Len(data.profiles) :
                /\ data'.profiles[p].key = data.profiles[p].key
                /\ data'.profiles[p].display_name = data.profiles[p].display_name
                /\ RemovedFrom(data.profiles[p].mod_order, data'.profiles[p].mod_order, idx)]_vars

\* A mod was removed whose index lay below that of another: a profile other than
\* the active one holds an enabled entry of the only mod left.
C16_Witness ==
    /\ epc = "open"
    /\ ret.op = "remove_mod"
    /\ Len(data.mods) > 0
    /\ \E p \in 1..Len(data.profiles) :
        /\ data.profiles[p].key # current_profile
        /\ \E k \in 1..Len(data.profiles[p].mod_order) :
            /\ data.profiles[p].mod_order[k].index = 0
            /\ data.profiles[p].mod_order[k].enabled

\* Nothing of the instance in memory changes.
Untouched == UNCHANGED <<data, current_profile, changed>>

\* One declaration is appended to the mod list and one disabled entry of its index
\* to the active order; nothing else changes.
Appended(name, kind) ==
    /\ data'.mods = Append(data.mods, [name |-> name, kind |-> kind])
    /\ Len(data'.profiles) = Len(data.profiles)
    /\ \A p \in 1..Len(data.profiles) :
        IF data.profiles[p].key = current_profile
        THEN data'.profiles[p] =
                [data.profiles[p] EXCEPT !.mod_order =
                    Append(@, [index |-> Len(data.mods), enabled |-> FALSE])]
        ELSE data'.profiles[p] = data.profiles[p]
    /\ current_profile' = current_profile

\* Some mod has the name.
NameTaken(name) == \E i \in 1..Len(data.mods) : data.mods[i].name = name

\* C17 as stated: create_mod(name, kind) returns AlreadyExists and leaves the mod
\* list, the profiles and the changed flag untouched when a mod has the name;
\* otherwise it appends one declaration and one disabled entry to the active order
\* and changes nothing else.
C17_CreateModAppendsUnlessTaken ==
    [][\A name \in EditModNames, kind \in ModEntryKind, init_ok \in BOOLEAN :
        create_mod(name, kind, init_ok) =>
            IF NameTaken(name) THEN ret'.error = "AlreadyExists" /\ Untouched
            ELSE Appended(name, kind)]_vars

\* C17 amended: create_mod(name, kind) returns AlreadyExists when a mod has the
\* name and InvalidName when the name is not a valid mod name, and in both cases
\* leaves the mod list, the profiles and the changed flag untouched; otherwise it
\* appends one declaration and one disabled entry of the new index to the active
\* order and changes nothing else, also when creating the directory then fails.
C17_CreateModAppendsUnlessRefused ==
    [][\A name \in EditModNames, kind \in ModEntryKind, init_ok \in BOOLEAN :
        create_mod(name, kind, init_ok) =>
            IF NameTaken(name) THEN ret'.error = "AlreadyExists" /\ Untouched
            ELSE IF ~is_name_valid(name) THEN ret'.error = "InvalidName" /\ Untouched
            ELSE ret'.error \in {"None", "Init"} /\ Appended(name, kind) /\ changed']_vars

\* A mod was created while two profiles exist: the active order ends with the
\* disabled entry of the new mod, the other profile has no entry of it.
C17_Witness ==
    /\ epc = "open"
    /\ ret = Return("create_mod", "None")
    /\ Len(data.mods) > 1
    /\ Len(data.profiles) > 1
    /\ ActiveOrder[Len(ActiveOrder)] = [index |-> Len(data.mods) - 1, enabled |-> FALSE]
    /\ \A p \in 1..Len(data.profiles) :
        data.profiles[p].key # current_profile =>
            EntriesOf(data.profiles[p].mod_order, Len(data.mods) - 1) = {}

\* C18: when create_mod fails because the directory of the mod cannot be created,
\* it returns the Init error and the mod list and the order of every profile are
\* as they were before the call.
C18_FailedInitRollsBack ==
    [][(ret'.op = "create_mod" /\ ret'.error = "Init") => data' = data]_vars

\* C19: after rename_mod(idx, new_name) returns, with Ok or with an error, the name
\* of the mod in memory is the name of its directory on disk: the declaration is
\* unchanged if the directory was not renamed and carries new_name if it was.
C19_RenameKeepsNameAndDirectory ==
    [][\A idx \in 0..(Len(data.mods) - 1), new_name \in EditModNames, rename_ok \in BOOLEAN :
        (rename_mod(idx, new_name, rename_ok) /\ has_mod_dir(data.mods[idx + 1])) =>
            IF mods_dir' = mods_dir THEN data'.mods = data.mods
            ELSE /\ mods_dir' = (mods_dir \ {data.mods[idx + 1].name}) \cup {new_name}
                 /\ data'.mods[idx + 1].name = new_name]_vars

\* The names of the mods are pairwise distinct.
NamesDistinct ==
    \A i, j \in 1..Len(data.mods) : data.mods[i].name = data.mods[j].name => i = j

\* C20: from an instance with pairwise distinct mod names, the names stay pairwise
\* distinct after any sequence of create_mod, rename_mod and remove_mod; a create_mod
\* or rename_mod with the name of an existing mod returns AlreadyExists and changes
\* nothing in memory or on disk.
C20_NamesStayDistinct ==
    /\ []NamesDistinct
    /\ [][\A name \in EditModNames :
            /\ (NameTaken(name) /\ \E kind \in ModEntryKind, init_ok \in BOOLEAN :
                    create_mod(name, kind, init_ok))
                => (ret'.error = "AlreadyExists" /\ Untouched /\ mods_dir' = mods_dir)
            /\ (NameTaken(name) /\ \E idx \in 0..(Len(data.mods) - 1), rename_ok \in BOOLEAN :
                    rename_mod(idx, name, rename_ok))
                => (ret'.error = "AlreadyExists" /\ Untouched /\ mods_dir' = mods_dir)]_vars

\* A rename to the name of the other mod was refused.
C20_Witness ==
    /\ epc = "open"
    /\ ret = Return("rename_mod", "AlreadyExists")
    /\ Len(data.mods) > 1
    /\ NamesDistinct

\* ---------------------------------------------------------------------------
\* move_multiple looked at alone (edit/src/util.rs): the slice holds the numbers
\* 0 .. len-1 in order, as in the function's documentation, so that an item is
\* the index it started at.
\* ---------------------------------------------------------------------------

\* The longest slice that is moved, the documented example aside.
MaxSlice == 5

iota(len) == [i \in 1..len |-> i - 1]

MoveArgs(slice, from, to) == [slice |-> slice, from |-> from, to |-> to]

\* The example of the documentation: the items 1, 3 and 8 of ten moved to 5.
DocExample == MoveArgs(iota(10), {1, 3, 8}, 5)

\* The calls looked at: a non-empty set of distinct indices of the slice, and a
\* target from 0 to the slice's length (the row the selection is dropped on, or the
\* row after it: gui/src/main.rs).
MoveCalls ==
    { MoveArgs(iota(len), from, to) :
        <<len, from, to>> \in { c \in (1..MaxSlice) \X (SUBSET (0..(MaxSlice - 1))) \X (0..MaxSlice) :
                                  /\ c[2] # {}
                                  /\ c[2] \subseteq 0..(c[1] - 1)
                                  /\ c[3] <= c[1] } }
        \cup {DocExample}

InitMove ==
    /\ move_args \in MoveCalls
    /\ move_ret = [slice |-> move_args.slice, panicked |-> FALSE]
    /\ mpc = "call"
    /\ CodecIdle
    /\ EditIdle
    /\ WriterIdle
    /\ instance = [mods |-> <<>>, mod_order |-> <<>>]
    /\ disk = [n \in Range(ModNames) |-> AbsentDir]
    /\ pc = "idle"
    /\ TreeStart
    /\ DeployIdle

\* The call of move_multiple, from its entry to its return or its panic.
MoveMultiple ==
    /\ mpc = "call"
    /\ move_ret' = move_multiple(move_args.slice, move_args.from, move_args.to)
    /\ mpc' = "returned"
    /\ UNCHANGED move_args
    /\ UNCHANGED <<treeVars, deployVars, codecVars, editVars, writerVars>>

NextMove == MoveMultiple

SpecMove == InitMove /\ [][NextMove]_vars

\* The position (from 0) at which a slice holds an item.
PositionOf(slice, item) == (CHOOSE i \in 1..Len(slice) : slice[i] = item) - 1

\* The value move_mods returns, the index at which the first selected entry ends.
new_first_index(from, moved) == PositionOf(moved, Min(from))

\* The call returned without a panic ("the move is defined").
MoveReturned == mpc = "returned" /\ ~move_ret.panicked

\* The entries of the given original indices keep their mutual order in the result.
KeepMutualOrder(items) ==
    \A a \in items, b \in items :
        a < b => PositionOf(move_ret.slice, a) < PositionOf(move_ret.slice, b)

\* C21: for every order, every non-empty selection of distinct valid indices and
\* every target for which the move is defined, the order after the move is a
\* permutation of the order before it in which the selected entries keep their
\* mutual order and the entries that were not selected keep theirs.
C21_MoveIsOrderPreservingPermutation ==
    MoveReturned =>
        /\ Len(move_ret.slice) = Len(move_args.slice)
        /\ Range(move_ret.slice) = Range(move_args.slice)
        /\ KeepMutualOrder(move_args.from)
        /\ KeepMutualOrder(Range(move_args.slice) \ move_args.from)

C21_Witness ==
    /\ MoveReturned
    /\ move_ret.slice # move_args.slice
    /\ Cardinality(move_args.from) >= 2
    /\ Cardinality(Range(move_args.slice) \ move_args.from) >= 2
    /\ \E a \in move_args.from : a < move_args.to
    /\ \E a \in move_args.from : a > move_args.to + Cardinality(move_args.from)

\* The selection fits between the target and the end of the order: t + n <= len.
SelectionFits == move_args.to + Cardinality(move_args.from) <= Len(move_args.slice)

C30_MoveStaysInBounds ==
    mpc = "returned" => ~move_ret.panicked

\* ---------------------------------------------------------------------------
\* add_profile looked at with names that are truncated and names that are taken.
\* ---------------------------------------------------------------------------

\* Names given to add_profile: one of 26 bytes, one of 13 clusters of two bytes
\* between spaces, and a short one between spaces.
LongProfileNames ==
    {"abcdefghijklmnopqrstuvwxyz", "  e'e'e'e'e'e'e'e'e'e'e'e'e' ", " new "}

AddLongProfile ==
    /\ epc = "open"
    /\ \E name \in LongProfileNames : add_profile(name)
    /\ UNCHANGED <<encoded, loaded, opened, cpc>>
    /\ UNCHANGED <<treeVars, deployVars, moveVars, writerVars>>

NextProfile == AddLongProfile

SpecProfile == InitEdit /\ [][NextProfile]_vars

\* A name is a trimmed name between spaces.
IsTrimOf(trimmed, name) ==
    /\ \E before \in {"", " ", "  "}, after \in {"", " ", "  "} : name = before \o trimmed \o after
    /\ trimmed # "" => SubSeq(trimmed, 1, 1) # " " /\ SubSeq(trimmed, Len(trimmed), Len(trimmed)) # " "

\* C23: add_profile(name) always inserts exactly one new profile, under a key that
\* was not a key before and is at most 24 bytes long, returns that key, stores the
\* trimmed original name as the display name, and leaves every existing profile and
\* the current-profile pointer unchanged.
C23_AddProfileInsertsOneNewKey ==
    [][\A name \in LongProfileNames :
          add_profile(name) =>
              /\ Len(data'.profiles) = Len(data.profiles) + 1
              /\ ~contains_key(data.profiles, ret'.key)
              /\ contains_key(data'.profiles, ret'.key)
              /\ Len(ret'.key) <= 24
              /\ IsTrimOf(get(data'.profiles, ret'.key).display_name, name)
              /\ \A i \in 1..Len(data.profiles) :
                     /\ contains_key(data'.profiles, data.profiles[i].key)
                     /\ get(data'.profiles, data.profiles[i].key) = data.profiles[i]
              /\ current_profile' = current_profile
              /\ data'.mods = data.mods]_vars

C23_Witness ==
    /\ ret.op = "add_profile"
    /\ ret.key = "abcdefghijklmnopqrstuv10"
    /\ contains_key(data.profiles, "e'e'e'e'e'e'e'e'e'e'e'1")
    /\ contains_key(data.profiles, "new1")

\* ---------------------------------------------------------------------------
\* save() and the writer thread (edit/src/instance.rs, edit/src/writer.rs): an
\* opened instance is edited and saved while the worker takes the requests from
\* the channel and writes each to mmm.cbor.tmp before renaming it over mmm.cbor.
\* ---------------------------------------------------------------------------

\* The number of requests save() enqueues before the model stops saving.
MaxSaves == 2

\* A file that holds all the bytes of a content, or only a part of them.
FileOf(content, complete) == [content |-> content, complete |-> complete]

NoTmpFile == [exists |-> FALSE, content |-> NoContent, complete |-> FALSE, synced |-> FALSE]

\* The instance data files that are opened: one mod, the default profile alone,
\* with the mod's entry or without it.
SaveFiles ==
    { d \in EditFiles :
        /\ Len(d.mods) = 1
        /\ Len(d.profiles) = 1
        /\ d.profiles[1].key = DEFAULT_PROFILE_NAME
        /\ \A i \in 1..Len(d.profiles[1].mod_order) : ~d.profiles[1].mod_order[i].enabled }

\* The state after EditableInstance::open returned Ok: the data of the file with the
\* missing entries added, the writer thread spawned and waiting, mmm.cbor as read.
InitSave ==
    /\ \E d \in SaveFiles :
        LET o == EditableInstance_open(from_file(serialize_InstanceData(d)).data)
        IN  /\ data = o.data
            /\ current_profile = o.current_profile
            /\ mods_dir = { d.mods[i].name : i \in { j \in 1..Len(d.mods) : has_mod_dir(d.mods[j]) } }
            /\ encoded = serialize_InstanceData(d)
            /\ loaded = from_file(serialize_InstanceData(d))
            /\ data_file = FileOf(serialize_InstanceData(d), TRUE)
    /\ changed = FALSE
    /\ ret = Return("open", "None")
    /\ epc = "open"
    /\ opened = NotOpened
    /\ cpc = "idle"
    /\ write_queue = <<>>
    /\ sender = "alive"
    /\ wpc = "recv"
    /\ req = NoContent
    /\ tmp_file = NoTmpFile
    /\ sent = <<>>
    /\ taken = 0
    /\ failed = {}
    /\ instance = [mods |-> <<>>, mod_order |-> <<>>]
    /\ disk = [n \in Range(ModNames) |-> AbsentDir]
    /\ pc = "idle"
    /\ TreeStart
    /\ DeployIdle
    /\ MoveIdle

\* cbor4ii::serde::to_vec(Vec::new(), &self.data): the content of a WriteRequest.
to_vec(d) == serialize_InstanceData(d)

\* mpsc Sender::send: the request is appended to the channel unless the receiver
\* is gone.
send(queue, content) == IF wpc = "terminated" THEN queue ELSE Append(queue, content)

\* save() that does not look at the changed flag.
save_unconditional ==
    /\ changed' = FALSE
    /\ write_queue' = send(write_queue, to_vec(data))
    /\ sent' = IF wpc = "terminated" THEN sent ELSE Append(sent, to_vec(data))
    /\ ret' = Return("save", "None")
    /\ UNCHANGED <<data, current_profile, mods_dir, epc>>

\* save().
save ==
    IF ~changed
    THEN /\ ret' = Return("save", "None")
         /\ UNCHANGED <<data, current_profile, changed, mods_dir, epc, write_queue, sent>>
    ELSE /\ changed' = FALSE
         /\ write_queue' = send(write_queue, to_vec(data))
         /\ sent' = IF wpc = "terminated" THEN sent ELSE Append(sent, to_vec(data))
         /\ ret' = Return("save", "None")
         /\ UNCHANGED <<data, current_profile, mods_dir, epc>>

Save ==
    /\ epc = "open"
    /\ Len(sent) < MaxSaves
    /\ save
    /\ UNCHANGED <<encoded, loaded, opened, cpc>>
    /\ UNCHANGED <<sender, wpc, req, tmp_file, data_file, taken, failed>>
    /\ UNCHANGED <<treeVars, deployVars, moveVars>>

\* The EditableInstance is dropped, and its Sender with it.
DropInstance ==
    /\ epc = "open"
    /\ epc' = "dropped"
    /\ sender' = "dropped"
    /\ UNCHANGED <<data, current_profile, changed, mods_dir, ret>>
    /\ UNCHANGED <<encoded, loaded, opened, cpc>>
    /\ UNCHANGED <<write_queue, wpc, req, tmp_file, data_file, sent, taken, failed>>
    /\ UNCHANGED <<treeVars, deployVars, moveVars>>

\* A worker that leaves its loop when a step fails.
break_on_error == "terminated"

\* A worker that renames the temporary file although a step failed.
rename_on_error == "rename"

\* Where the worker goes on after a step failed: `continue`, the next recv.
continue_on_error == "recv"

\* The step that failed is recorded for the request being processed.
Failure ==
    /\ failed' = failed \cup {taken}
    /\ wpc' = continue_on_error

\* A channel that hands out the newest request first.
WorkerRecv_newest ==
    /\ wpc = "recv"
    /\ write_queue # <<>>
    /\ req' = write_queue[Len(write_queue)]
    /\ write_queue' = SubSeq(write_queue, 1, Len(write_queue) - 1)
    /\ taken' = taken + 1
    /\ wpc' = "create"
    /\ UNCHANGED <<sender, tmp_file, data_file, sent, failed>>
    /\ UNCHANGED <<treeVars, deployVars, codecVars, editVars, moveVars>>

\* receiver.recv() returns a request: the oldest of the channel.
WorkerRecv ==
    /\ wpc = "recv"
    /\ write_queue # <<>>
    /\ req' = Head(write_queue)
    /\ write_queue' = Tail(write_queue)
    /\ taken' = taken + 1
    /\ wpc' = "create"
    /\ UNCHANGED <<sender, tmp_file, data_file, sent, failed>>
    /\ UNCHANGED <<treeVars, deployVars, codecVars, editVars, moveVars>>

\* receiver.recv() returns Err: the channel is empty and the Sender is dropped.
WorkerTerminate ==
    /\ wpc = "recv"
    /\ write_queue = <<>>
    /\ sender = "dropped"
    /\ wpc' = "terminated"
    /\ UNCHANGED <<write_queue, sender, req, tmp_file, data_file, sent, taken, failed>>
    /\ UNCHANGED <<treeVars, deployVars, codecVars, editVars, moveVars>>

\* File::create(tmp_path): the temporary file is created or truncated.
WorkerCreate ==
    /\ wpc = "create"
    /\ \E ok \in BOOLEAN :
        IF ok
        THEN /\ tmp_file' = [exists |-> TRUE, content |-> req, complete |-> FALSE, synced |-> FALSE]
             /\ wpc' = "write"
             /\ UNCHANGED failed
        ELSE /\ Failure
             /\ UNCHANGED tmp_file
    /\ UNCHANGED <<write_queue, sender, req, data_file, sent, taken>>
    /\ UNCHANGED <<treeVars, deployVars, codecVars, editVars, moveVars>>

\* file.write_all(&req.content): all the bytes are written, or an error leaves a
\* part of them.
WorkerWrite ==
    /\ wpc = "write"
    /\ \E ok \in BOOLEAN :
        IF ok
        THEN /\ tmp_file' = [tmp_file EXCEPT !.complete = TRUE]
             /\ wpc' = "sync"
             /\ UNCHANGED failed
        ELSE /\ Failure
             /\ UNCHANGED tmp_file
    /\ UNCHANGED <<write_queue, sender, req, data_file, sent, taken>>
    /\ UNCHANGED <<treeVars, deployVars, codecVars, editVars, moveVars>>

\* file.sync_data(), then drop(file).
WorkerSync ==
    /\ wpc = "sync"
    /\ \E ok \in BOOLEAN :
        IF ok
        THEN /\ tmp_file' = [tmp_file EXCEPT !.synced = TRUE]
             /\ wpc' = "rename"
             /\ UNCHANGED failed
        ELSE /\ Failure
             /\ UNCHANGED tmp_file
    /\ UNCHANGED <<write_queue, sender, req, data_file, sent, taken>>
    /\ UNCHANGED <<treeVars, deployVars, codecVars, editVars, moveVars>>

\* fs::rename(tmp_path, path): the temporary file replaces mmm.cbor, or an error
\* leaves both as they were; the loop goes on with the next recv either way.
WorkerRename ==
    /\ wpc = "rename"
    /\ \E ok \in BOOLEAN :
        IF ok
        THEN /\ data_file' = FileOf(tmp_file.content, tmp_file.complete)
             /\ tmp_file' = NoTmpFile
             /\ UNCHANGED failed
        ELSE /\ failed' = failed \cup {taken}
             /\ UNCHANGED <<tmp_file, data_file>>
    /\ wpc' = "recv"
    /\ UNCHANGED <<write_queue, sender, req, sent, taken>>
    /\ UNCHANGED <<treeVars, deployVars, codecVars, editVars, moveVars>>

\* The steps of the writer thread.
Worker ==
    \/ WorkerRecv
    \/ WorkerTerminate
    \/ WorkerCreate
    \/ WorkerWrite
    \/ WorkerSync
    \/ WorkerRename

NextSave ==
    \/ ToggleModEnabled
    \/ RenameMod
    \/ Save
    \/ DropInstance
    \/ WorkerRecv
    \/ WorkerTerminate
    \/ WorkerCreate
    \/ WorkerWrite
    \/ WorkerSync
    \/ WorkerRename

SpecSave == InitSave /\ [][NextSave]_vars

\* The worker thread is scheduled as long as it has a step to take.
SpecSaveFair == SpecSave /\ WF_vars(Worker)

\* The worker has taken request k and is through with it.
Processed(k) == taken > k \/ (taken = k /\ wpc \in {"recv", "terminated"})

C25_RequestsAreWrittenInOrder ==
    /\ [][taken' # taken =>
              /\ wpc = "recv"
              /\ taken' = taken + 1
              /\ req' = sent[taken']]_vars
    /\ []((/\ sent # <<>>
           /\ write_queue = <<>>
           /\ wpc \in {"recv", "terminated"}
           /\ failed = {}) => data_file = FileOf(sent[Len(sent)], TRUE))

C25_Witness ==
    /\ Len(sent) = 2
    /\ sent[1] # sent[2]
    /\ write_queue = <<>>
    /\ wpc = "recv"
    /\ failed = {}
    /\ data_file = FileOf(sent[2], TRUE)

\* C26: at every instant, a failure or a stop between two steps included, mmm.cbor
\* holds its previous content or the complete content of one request: the rename
\* over it happens only after all the bytes of that same request were written to
\* the temporary file and its fsync succeeded.
C26_TargetIsNeverPartial ==
    /\ [](/\ data_file.complete
          /\ \/ data_file.content = encoded
             \/ \E k \in 1..Len(sent) : data_file.content = sent[k])
    /\ [][data_file' # data_file =>
              /\ tmp_file = [exists |-> TRUE, content |-> req, complete |-> TRUE, synced |-> TRUE]
              /\ data_file' = FileOf(req, TRUE)]_vars

C26_Witness ==
    /\ taken = 2
    /\ failed = {2}
    /\ wpc = "recv"
    /\ tmp_file.exists
    /\ ~tmp_file.complete
    /\ tmp_file.content = sent[2]
    /\ sent[1] # sent[2]
    /\ data_file = FileOf(sent[1], TRUE)

\* C29: whenever changed is false, the data in memory equals the last snapshot
\* handed to the worker (or, before the first save, the data as loaded from disk):
\* every operation that modifies the data leaves changed true.
C29_UnchangedMeansSaved ==
    (epc = "open" /\ ~changed) =>
        IF sent = <<>> THEN data = loaded.data
        ELSE serialize_InstanceData(data) = sent[Len(sent)]

\* The mount handles of main and the mount each of them unmounts.
MountHandles == {"staging_dir", "overlay_mount"}

HandleTarget(h) == IF h = "overlay_mount" THEN "overlay" ELSE "tmpfs"

\* The unmounts of a mount issued so far, as positions of the log.
UnmountsIssued(l, target) == { i \in 1..Len(l) : l[i].op = "unmount" /\ l[i].target = target }

\* C28: for every mount handle (tmpfs or union): once an explicit unmount() has
\* succeeded no further unmount is issued for that mount when the handle is
\* dropped, and a handle that is dropped without unmount() having been called
\* issues exactly one best-effort unmount whose failure is ignored.
C28_HandleUnmountsOnce ==
    /\ [](\A h \in MountHandles :
              /\ handles[h] = "taken" =>
                     /\ Cardinality(UnmountsIssued(log, HandleTarget(h))) = 1
                     /\ \A i \in UnmountsIssued(log, HandleTarget(h)) : log[i].ok
              /\ exit \in {"Ok", "Err"} => handles[h] # "some")
    /\ [][\A h \in MountHandles :
              /\ handles[h] \in {"taken", "dropped"} =>
                     /\ handles'[h] = handles[h]
                     /\ UnmountsIssued(log', HandleTarget(h)) = UnmountsIssued(log, HandleTarget(h))
              /\ (handles[h] = "some" /\ handles'[h] = "dropped") =>
                     /\ Len(log') = Len(log) + 1
                     /\ UnmountsIssued(log', HandleTarget(h))
                            = UnmountsIssued(log, HandleTarget(h)) \cup {Len(log')}
                     /\ dpc' = IF h = "overlay_mount" THEN "drop_staging" ELSE "returned"]_vars

\* main has returned after the union handle was dropped without unmount() having
\* been called: its one unmount failed, and the drop of staging_dir went on.
C28_Witness ==
    /\ dpc = "returned"
    /\ handles.overlay_mount = "dropped"
    /\ handles.staging_dir = "dropped"
    /\ Cardinality(UnmountsIssued(log, "overlay")) = 1
    /\ \A i \in UnmountsIssued(log, "overlay") : ~log[i].ok
    /\ Cardinality(UnmountsIssued(log, "tmpfs")) = 1

====
